---- MODULE Spec2Model ----
(***************************************************************************)
(* Client-side real-time synchronisation layer of voice-ai-client:         *)
(* the useStock resource store, the StockTable undo stack that drives it,  *)
(* the chat/events backend it talks to over REST and one SSE stream, the   *)
(* TodoTable store and the TerminalEvents log.                             *)
(***************************************************************************)
EXTENDS Integers, Sequences, FiniteSets, TLC

(***************************************************************************)
(* Bounds of the model                                                     *)
(***************************************************************************)
\* operations issued in one run of the store (user actions and other sessions' writes)
MaxOps == 2
\* user actions issued in one run of the table with its undo stack
MaxTableOps == 3
\* REST calls of the store in flight at the same time
MaxCalls == 2
\* operations issued in one run of the todo table
MaxTodoOps == 2
\* operations issued in a run of the todo table with its undo slot alone
MaxSlotOps == 3
\* SSE messages the events terminals receive in one run
MaxMessages == 3
\* clock ticks that make up the 30 s of the undo slot's timer
ExpiryTicks == 2
\* characters of the longest text typed into the add box
MaxLen == 5
\* operations issued in one run of the freezer table
MaxFreezerOps == 2
\* REST calls issued in one run of the text chat
MaxChatOps == 3
\* chunks the backend writes to one event stream
MaxChunks == 2
\* times the chat page is opened
MaxMounts == 3
\* bot responses the backend emits in one run
MaxResponses == 2
\* operations of the user on the gating controls in one run
MaxGatingOps == 1
\* events other sessions cause on the gating state in one run
MaxGatingEvents == 1
\* times the page that checks the versions is opened
MaxVisits == 2

NULL == "null"

Items == {"milk", "eggs"}
Quantities == {"1", "2"}
StockLevel == {"out_of_stock", "running_low", "sufficient"}
LevelCodes == {"+", "-", "0"}
\* the cells the user edits in a run
EditFields == {"item", "stock_level"}

\* the records the backend holds when the page is opened
InitialBackend ==
    << [id |-> "s1", item |-> "milk", quantity |-> "1", stock_level |-> "sufficient"] >>

\* the records the user and other sessions add in a run
AddInputs ==
    { [item |-> "milk", quantity |-> "1", stock_level |-> "sufficient"] }

\* characters the user types into the add box
Chars == {"a", " ", "/", "+", "0"}

\* every text of at most MaxLen characters
TypedInputs == UNION { [1..n -> Chars] : n \in 0..MaxLen }

\* the freezer items the backend holds when the page is opened
InitialFreezer ==
    << [code |-> << "a", "b", "c" >>, description |-> "stew", added_at |-> "mon"] >>

\* what the user types into the add box of the freezer table
FreezerInputs ==
    { << "a", "b", "c", "/", "x" >>, << "A", "B", "C", " ", "/", " ", "x" >>,
      << "a", "b", "d", "/", "x" >>, << "a", "b", "/", "x" >>,
      << "a", "b", "d" >>, << "a", "b", "c", "/", " " >> }

\* one proxy route of each way of answering a backend error
ProxyRoutes == {"memories GET", "todos/[id] PATCH", "clients/select POST", "events GET"}

\* status codes the backend answers with
BackendStatuses == {200, 404, 500}

\* response bodies of the backend, as text
BackendBodies ==
    {"{\"error\":\"no such todo\"}", "{\"detail\":\"no such todo\"}",
     "{\"error\":{\"code\":7}}", "null", "<html>Internal Server Error</html>"}

\* what a fetch of the backend ends in
BackendOutcomes ==
    {[reached |-> FALSE]}
    \cup [reached : {TRUE}, status : BackendStatuses, body : BackendBodies]

\* partial updates other sessions send
OtherUpdates == { [quantity |-> "2"] }

\* the todos the backend holds when the page is opened
InitialTodos ==
    << [id |-> "t1", content |-> "call mum", completed |-> TRUE,
        created_at |-> "mon", completed_at |-> "tue"] >>

\* PATCH bodies other sessions send for a todo
OtherTodoUpdates == { [content |-> "call dad"], [completed |-> FALSE] }

\* new Date().toISOString() at the moment a todo is completed
Now == "now"

\* event types the second events terminal subscribes to (first four of the list)
SSE_EVENT_TYPES ==
    {"connected", "turn_counter_updated", "client_selected", "gating_mode_changed"}

\* event types the first events terminal subscribes to
TerminalEventTypes == {"connected", "turn_counter_updated"}

\* e.data as it arrives on the stream
RawPayloads == {"{}", "{\"turn_count\":1}", "", "{\"turn_count\":"}

(***************************************************************************)
(* Pure helpers                                                            *)
(***************************************************************************)
\* { ...s, ...data }
Merge(s, data) ==
    [f \in DOMAIN s \cup DOMAIN data |-> IF f \in DOMAIN data THEN data[f] ELSE s[f]]

\* prev.some((s) => s.id === id)
Has(prev, id) == \E i \in 1..Len(prev) : prev[i].id = id

\* prev.find((s) => s.id === id), only used where Has(prev, id)
Find(prev, id) == prev[CHOOSE i \in 1..Len(prev) :
                          prev[i].id = id /\ \A j \in 1..(i - 1) : prev[j].id # id]

Filter(prev, id) == SelectSeq(prev, LAMBDA s : s.id # id)

Count(prev, id) == Cardinality({i \in 1..Len(prev) : prev[i].id = id})

\* the string made of the characters of s
RECURSIVE Join(_)
Join(s) == IF s = <<>> THEN "" ELSE Head(s) \o Join(Tail(s))

RECURSIVE TrimStart(_)
TrimStart(s) == IF s # <<>> /\ Head(s) = " " THEN TrimStart(Tail(s)) ELSE s

RECURSIVE TrimEnd(_)
TrimEnd(s) ==
    IF s # <<>> /\ s[Len(s)] = " " THEN TrimEnd(SubSeq(s, 1, Len(s) - 1)) ELSE s

\* String.prototype.trim
Trim(s) == TrimEnd(TrimStart(s))

\* s.indexOf(c), 1-based, 0 when c does not occur
IndexOf(s, c) ==
    IF \E i \in 1..Len(s) : s[i] = c
    THEN CHOOSE i \in 1..Len(s) : s[i] = c /\ \A j \in 1..(i - 1) : s[j] # c
    ELSE 0

\* s.split(sep)
RECURSIVE Split(_, _)
Split(s, sep) ==
    IF IndexOf(s, sep) = 0
    THEN << s >>
    ELSE << SubSeq(s, 1, IndexOf(s, sep) - 1) >>
         \o Split(SubSeq(s, IndexOf(s, sep) + 1, Len(s)), sep)

\* backend id of the n-th record ever created
FreshId(n) == "s" \o ToString(n)

\* the character shown in the cell and typed into the boxes for a stock level
LevelToCode(level) ==
    CASE level = "sufficient" -> "+"
      [] level = "running_low" -> "-"
      [] level = "out_of_stock" -> "0"
      [] OTHER -> "+"

CodeToLevel(code) ==
    CASE code = "+" -> "sufficient"
      [] code = "-" -> "running_low"
      [] code = "0" -> "out_of_stock"

\* what parseStockInput returns for an input it does not accept
NoParse == [parsed |-> FALSE]

InvalidFormat == "Invalid format. Expected: item / quantity / status"

\* the variant that does not look for empty parts
parseStockInput_NoEmptyCheck(input) ==
    LET parts == [i \in 1..Len(Split(input, "/")) |-> Trim(Split(input, "/")[i])]
    IN  IF Len(parts) # 3
        THEN NoParse
        ELSE IF Join(parts[3]) \notin LevelCodes
             THEN NoParse
             ELSE [item |-> Join(parts[1]), quantity |-> Join(parts[2]),
                   stockLevel |-> CodeToLevel(Join(parts[3]))]

parseStockInput(input) ==
    LET parts == [i \in 1..Len(Split(input, "/")) |-> Trim(Split(input, "/")[i])]
    IN  IF Len(parts) # 3
        THEN NoParse
        ELSE IF parts[1] = <<>> \/ parts[2] = <<>> \/ parts[3] = <<>>
             THEN NoParse
             ELSE IF Join(parts[3]) \notin LevelCodes
                  THEN NoParse
                  ELSE [item |-> Join(parts[1]), quantity |-> Join(parts[2]),
                        stockLevel |-> CodeToLevel(Join(parts[3]))]

\* `pending|||${item}|||${quantity}|||${stockLevel}`
TempId(item, quantity, stockLevel) ==
    "pending|||" \o item \o "|||" \o quantity \o "|||" \o stockLevel

\* the records a run can add: the ones of AddInputs and the ones typed into the box
Addable ==
    AddInputs \cup
    { [item |-> parseStockInput(t).item, quantity |-> parseStockInput(t).quantity,
       stock_level |-> parseStockInput(t).stockLevel] :
         t \in {u \in TypedInputs : parseStockInput(u) # NoParse} }

PendingIds == { TempId(a.item, a.quantity, a.stock_level) : a \in Addable }

\* op.stockId.startsWith("pending|||")
IsPending(id) == id \in PendingIds

\* pendingData.split("|||") : the item and quantity the temp id was built from
PendingParts(id) ==
    CHOOSE a \in Addable : TempId(a.item, a.quantity, a.stock_level) = id

RemoveKey(f, k) == [x \in DOMAIN f \ {k} |-> f[x]]

(***************************************************************************)
(* State                                                                   *)
(***************************************************************************)
VARIABLES
    backend,        \* the backend's stock collection, in creation order
    nextId,         \* number the backend gives to the next created record
    created,        \* ids the backend gave to records made by this store's create calls
    events,         \* SSE events emitted and not yet delivered to useStock
    calls,          \* REST calls in flight: call id -> call
    stock,          \* useStock: the local collection
    isLoading,      \* useStock: loading flag
    error,          \* useStock: error flag
    undoStack,      \* StockTable: undo stack
    isUndoing,      \* StockTable: an undo is in flight
    isAdding,       \* StockTable: an add is in flight
    editingId,      \* StockTable: id of the row being edited
    editingField,   \* StockTable: field being edited
    originalValue,  \* StockTable: value shown when editing started
    newStockInput,  \* StockTable: text in the add box
    showError,      \* StockTable: the input error modal is open
    errorMessage,   \* StockTable: text of the input error modal
    ops,            \* operations issued so far
    last            \* the step taken last

storeVars == <<backend, nextId, created, events, calls, stock, isLoading, error>>
tableVars == <<undoStack, isUndoing, isAdding, editingId, editingField, originalValue>>
addBoxVars == <<newStockInput, showError, errorMessage>>
countVars == <<ops>>
stockVars == <<storeVars, tableVars, addBoxVars, countVars, last>>

VARIABLES
    todoBackend,    \* the backend's todo collection
    todoEvents,     \* SSE events emitted and not yet delivered to TodoTable
    todoCalls,      \* REST calls of TodoTable in flight: call id -> call
    todos,          \* TodoTable: the local collection
    todoLoading,    \* TodoTable: isLoading
    todoError,      \* TodoTable: error
    lastAction,     \* TodoTable: the single undo slot
    undoTimer,      \* TodoTable: the timeout armed by the undo expiry effect
    slotAge,        \* ticks since the entry in the slot was recorded
    todoUndoing,    \* TodoTable: isUndoing
    todoNextId,     \* number the backend gives to the next created todo
    todoOps,        \* operations issued so far
    todoLast        \* the step taken last

todoVars == <<todoBackend, todoEvents, todoCalls, todos, todoLoading, todoError,
              lastAction, undoTimer, slotAge, todoUndoing, todoNextId, todoOps, todoLast>>

VARIABLES
    termEvents,        \* TerminalEvents (two event types): the event log
    termEventId,       \* ... its eventIdRef
    termStatus,        \* ... its connectionStatus
    termAllEvents,     \* TerminalEvents (all event types): the event log
    termAllEventId,    \* ... its eventIdRef
    termAllStatus,     \* ... its connectionStatus
    uncaught,          \* exceptions that escaped a listener
    received,          \* SSE messages received so far
    termLast           \* the step taken last

terminalVars == <<termEvents, termEventId, termStatus, termAllEvents, termAllEventId,
                  termAllStatus, uncaught, received, termLast>>

VARIABLES
    freezerBackend,      \* the backend's freezer collection
    freezerEvents,       \* SSE events emitted and not yet delivered to useFreezer
    freezerCalls,        \* REST calls of useFreezer in flight: call id -> call
    items,               \* useFreezer: the local collection
    freezerLoading,      \* useFreezer: isLoading
    freezerError,        \* useFreezer: error
    newItemInput,        \* FreezerTable: text in the add box
    freezerAdding,       \* FreezerTable: isAdding
    freezerMessage,      \* FreezerTable: errorMessage, the toast
    freezerOps,          \* operations issued so far
    freezerLast          \* the step taken last

freezerVars == <<freezerBackend, freezerEvents, freezerCalls, items, freezerLoading,
                 freezerError, newItemInput, freezerAdding, freezerMessage,
                 freezerOps, freezerLast>>

VARIABLES
    proxyCall,           \* the proxy route that awaits its fetch of the backend
    proxyAnswer          \* the request answered last: route, backend outcome, response

proxyVars == <<proxyCall, proxyAnswer>>

VARIABLES
    chatMounted,         \* the component that uses useTextChat is mounted
    sessionId,           \* useTextChat: sessionId
    sseConnected,        \* useTextChat: sseConnected
    chatMessages,        \* useTextChat: messages, the role of each
    chatCalls,           \* REST calls of useTextChat in flight: call id -> call
    chatOps,             \* REST calls issued so far
    chatLast             \* the step taken last

chatVars == <<chatMounted, sessionId, sseConnected, chatMessages, chatCalls, chatOps,
              chatLast>>

VARIABLES
    evRequest,           \* SSE proxy: the inbound request, "open" or "aborted"
    evStream,            \* SSE proxy: the response stream, "open", "cancelled" or "closed"
    evAborted,           \* SSE proxy: abortController.signal.aborted
    evBackend,           \* the backend's event stream, "open", "ended" or "aborted"
    evPending,           \* chunks the backend wrote that the proxy has not read yet
    evEmitted,           \* every chunk the backend wrote
    evForwarded          \* chunks the proxy enqueued on the response stream

eventsVars == <<evRequest, evStream, evAborted, evBackend, evPending, evEmitted,
                evForwarded>>

VARIABLES
    storedSessions,      \* localStorage["text_chat_sessions"], the ids as a sequence
    initMounted,         \* useTextChat's first effect: mounted
    initStep,            \* where init is: "start", "closing", "creating", "waiting"
                         \* (retryTimeout armed), "done", "ended" or "rejected"
    initSessionId,       \* the sessionId that init sets
    initSessions,        \* closePreviousSessions: the ids read from the storage
    closeAsked,          \* ids a DELETE /session/{id} was sent for
    sessionsCreated,     \* sessions the chat server has created
    backendUp,           \* the chat server accepts session creations
    chatMounts           \* times the chat page was opened

sessionVars == <<storedSessions, initMounted, initStep, initSessionId, initSessions,
                 closeAsked, sessionsCreated, backendUp, chatMounts>>

VARIABLES
    esSessionId,         \* the sessionId the listener of the live EventSource closed over
    esOpen,              \* the live EventSource is connected to the event stream
    esConnected,         \* useTextChat: sseConnected, as the EventSources set it
    esQueue,             \* bot_text_response events on their way to the live EventSource
    botEmitted,          \* every bot_text_response the backend emitted
    botMessages          \* useTextChat: the bot messages appended, as their events

listenerVars == <<esSessionId, esOpen, esConnected, esQueue, botEmitted, botMessages>>

VARIABLES
    selectedClientId,    \* useClientProfile: selectedClientId
    currentGatingMode,   \* useClientProfile: currentGatingMode
    isListening,         \* useClientProfile: isListening
    gatingCalls,         \* REST calls of useClientProfile in flight: call id -> call
    gatingEvents,        \* SSE events emitted and not yet delivered to useClientProfile
    gatingOps,           \* operations of the user so far
    gatingEmitted,       \* events other sessions caused so far
    gatingLast           \* the step taken last

gatingVars == <<selectedClientId, currentGatingMode, isListening, gatingCalls,
                gatingEvents, gatingOps, gatingEmitted, gatingLast>>

VARIABLES
    versionStorage,      \* localStorage["voice-ai-versions"]: the versions last seen
    stored,              \* fetchVersions: what getStoredVersions gave at mount
    clientVersion,       \* useVersion: clientVersion
    serverVersion,       \* useVersion: serverVersion
    newVersionsList,     \* fetchVersions: the notifications collected so far
    newVersions,         \* useVersion: newVersions
    versionStep,         \* fetchVersions awaits the "client" or the "server" fetches, or is "done"
    versionVisits,       \* times the page was opened
    versionLast          \* the step taken last

versionVars == <<versionStorage, stored, clientVersion, serverVersion, newVersionsList,
                 newVersions, versionStep, versionVisits, versionLast>>

vars == <<stockVars, todoVars, terminalVars, freezerVars, proxyVars, chatVars, eventsVars, sessionVars, listenerVars, gatingVars, versionVars>>
nonStockVars == <<todoVars, terminalVars, freezerVars, proxyVars, chatVars, eventsVars, sessionVars, listenerVars, gatingVars, versionVars>>
nonTodoVars == <<stockVars, terminalVars, freezerVars, proxyVars, chatVars, eventsVars, sessionVars, listenerVars, gatingVars, versionVars>>
nonTerminalVars == <<stockVars, todoVars, freezerVars, proxyVars, chatVars, eventsVars, sessionVars, listenerVars, gatingVars, versionVars>>
nonFreezerVars == <<stockVars, todoVars, terminalVars, proxyVars, chatVars, eventsVars, sessionVars, listenerVars, gatingVars, versionVars>>
nonProxyVars == <<stockVars, todoVars, terminalVars, freezerVars, chatVars, eventsVars, sessionVars, listenerVars, gatingVars, versionVars>>
nonChatVars == <<stockVars, todoVars, terminalVars, freezerVars, proxyVars, eventsVars, sessionVars, listenerVars, gatingVars, versionVars>>
nonEventsVars == <<stockVars, todoVars, terminalVars, freezerVars, proxyVars, chatVars, sessionVars, listenerVars, gatingVars, versionVars>>
nonSessionVars == <<stockVars, todoVars, terminalVars, freezerVars, proxyVars, chatVars, eventsVars, listenerVars, gatingVars, versionVars>>
nonListenerVars == <<stockVars, todoVars, terminalVars, freezerVars, proxyVars, chatVars, eventsVars, sessionVars, gatingVars, versionVars>>
nonGatingVars == <<stockVars, todoVars, terminalVars, freezerVars, proxyVars, chatVars, eventsVars, sessionVars, listenerVars, versionVars>>
nonVersionVars == <<stockVars, todoVars, terminalVars, freezerVars, proxyVars, chatVars, eventsVars, sessionVars, listenerVars, gatingVars>>

LoadCall == [kind |-> "load", origin |-> "fetchStock", phase |-> "sent"]

\* useStock and StockTable after mount, whatever the add box holds
StockMounted ==
    /\ backend = InitialBackend
    /\ nextId = Len(InitialBackend) + 1
    /\ created = {}
    /\ events = <<>>
    /\ calls = (0 :> LoadCall)
    /\ stock = <<>>
    /\ isLoading = TRUE
    /\ error = NULL
    /\ undoStack = <<>>
    /\ isUndoing = FALSE
    /\ isAdding = FALSE
    /\ editingId = NULL
    /\ editingField = NULL
    /\ originalValue = ""
    /\ showError = FALSE
    /\ errorMessage = ""
    /\ ops = 0
    /\ last = [op |-> "mount"]

\* useStock and StockTable after mount
StockInit ==
    /\ newStockInput = <<>>
    /\ StockMounted

\* lastAction === null
NoAction == [type |-> NULL]

\* no timeout is pending
NoTimer == [armed |-> FALSE]

\* TodoTable after mount: fetchTodos is in flight
TodoInit ==
    /\ todoBackend = InitialTodos
    /\ todoEvents = <<>>
    /\ todoCalls = (0 :> [kind |-> "load", origin |-> "fetchTodos", phase |-> "sent"])
    /\ todos = <<>>
    /\ todoLoading = TRUE
    /\ todoError = NULL
    /\ lastAction = NoAction
    /\ undoTimer = NoTimer
    /\ slotAge = 0
    /\ todoUndoing = FALSE
    /\ todoNextId = Len(InitialTodos) + 1
    /\ todoOps = 0
    /\ todoLast = [op |-> "mount"]

\* both events terminals after mount: setConnectionStatus("connecting")
TerminalInit ==
    /\ termEvents = <<>>
    /\ termEventId = 0
    /\ termStatus = "connecting"
    /\ termAllEvents = <<>>
    /\ termAllEventId = 0
    /\ termAllStatus = "connecting"
    /\ uncaught = 0
    /\ received = 0
    /\ termLast = [op |-> "mount"]

\* useFreezer and FreezerTable after mount
FreezerInit ==
    /\ freezerBackend = InitialFreezer
    /\ freezerEvents = <<>>
    /\ freezerCalls = (0 :> [kind |-> "load", phase |-> "sent"])
    /\ items = <<>>
    /\ freezerLoading = TRUE
    /\ freezerError = NULL
    /\ newItemInput = <<>>
    /\ freezerAdding = FALSE
    /\ freezerMessage = NULL
    /\ freezerOps = 0
    /\ freezerLast = [op |-> "mount"]

\* no request has reached the proxy yet
ProxyInit ==
    /\ proxyCall = NULL
    /\ proxyAnswer = [route |-> NULL]

\* useTextChat after mount: init has asked for a session, the event source is
\* connecting
ChatInit ==
    /\ chatMounted = TRUE
    /\ sessionId = NULL
    /\ sseConnected = FALSE
    /\ chatMessages = <<>>
    /\ chatCalls = (0 :> [kind |-> "createSession", origin |-> "init", phase |-> "sent"])
    /\ chatOps = 0
    /\ chatLast = [op |-> "mount"]

\* the SSE proxy once the backend has answered OK and the response is returned
EventsInit ==
    /\ evRequest = "open"
    /\ evStream = "open"
    /\ evAborted = FALSE
    /\ evBackend = "open"
    /\ evPending = <<>>
    /\ evEmitted = <<>>
    /\ evForwarded = <<>>

\* the chat page opened for the first time: nothing stored, init about to run
SessionInit ==
    /\ storedSessions = <<>>
    /\ initMounted = TRUE
    /\ initStep = "start"
    /\ initSessionId = NULL
    /\ initSessions = <<>>
    /\ closeAsked = {}
    /\ sessionsCreated = 0
    /\ backendUp = FALSE
    /\ chatMounts = 1

\* useTextChat after mount: the first EventSource is connecting, its listener
\* saw sessionId null
ListenerInit ==
    /\ esSessionId = NULL
    /\ esOpen = FALSE
    /\ esConnected = FALSE
    /\ esQueue = <<>>
    /\ botEmitted = <<>>
    /\ botMessages = <<>>

\* useClientProfile after mount: init awaits the clients and the gating modes
GatingInit ==
    /\ selectedClientId = NULL
    /\ currentGatingMode = NULL
    /\ isListening = FALSE
    /\ gatingCalls = (0 :> [kind |-> "load", origin |-> "init", phase |-> "sent"])
    /\ gatingEvents = <<>>
    /\ gatingOps = 0
    /\ gatingEmitted = 0
    /\ gatingLast = [op |-> "mount"]

\* a version that is not known: null
NoVersion == [known |-> FALSE]

\* useVersion at the first visit: nothing is stored, fetchVersions awaits the
\* client version
VersionInit ==
    /\ versionStorage = [clientVersion |-> NoVersion, serverVersion |-> NoVersion]
    /\ stored = [clientVersion |-> NoVersion, serverVersion |-> NoVersion]
    /\ clientVersion = NoVersion
    /\ serverVersion = NoVersion
    /\ newVersionsList = <<>>
    /\ newVersions = <<>>
    /\ versionStep = "client"
    /\ versionVisits = 1
    /\ versionLast = [op |-> "mount"]

Init == StockInit /\ TodoInit /\ TerminalInit /\ FreezerInit /\ ProxyInit /\ ChatInit /\ EventsInit /\ SessionInit /\ ListenerInit /\ GatingInit /\ VersionInit


(***************************************************************************)
(* useStock: what each listener and each REST completion does to the       *)
(* collection                                                              *)
(***************************************************************************)
\* variant: the listener appends without looking for the id
stockCreated_NoCheck(prev, data) == Append(prev, data)

\* stock_created listener: add unless a record with that id is present
stockCreated(prev, data) ==
    IF Has(prev, data.id) THEN prev ELSE Append(prev, data)

\* stock_updated listener: prev.map(s => s.id === data.id ? {...s, ...data} : s)
stockUpdated(prev, data) ==
    [i \in 1..Len(prev) |-> IF prev[i].id = data.id THEN Merge(prev[i], data) ELSE prev[i]]

\* variant: the filter predicate is inverted
stockDeleted_Inverted(prev, data) == SelectSeq(prev, LAMBDA s : s.id = data.id)

\* stock_deleted listener: prev.filter(s => s.id !== data.id)
stockDeleted(prev, data) == Filter(prev, data.id)

\* variant: the response is merged into every record
updateStockOk_NoKey(prev, id, updatedStock) ==
    [i \in 1..Len(prev) |-> Merge(prev[i], updatedStock)]

\* updateStock after an OK response
updateStockOk(prev, id, updatedStock) ==
    [i \in 1..Len(prev) |-> IF prev[i].id = id THEN Merge(prev[i], updatedStock) ELSE prev[i]]

\* variant: the record is left for the stock_deleted event to remove
deleteStockOk_Wait(prev, id) == prev

\* deleteStock after an OK response
deleteStockOk(prev, id) == Filter(prev, id)

\* fetchStock after an OK response: the list replaces the collection
fetchStockOk(prev, stockList) == stockList

\* variant: a failed load empties the collection
fetchStockFail_Clear(prev) == <<>>

\* fetchStock after a non-OK response or a network error
fetchStockFail(prev) == prev

(***************************************************************************)
(* StockTable: undo stack helpers                                          *)
(***************************************************************************)
pushUndo(prev, operation) == Append(prev, operation)

\* prev.slice(0, -1)
dropTop(prev) == IF Len(prev) = 0 THEN prev ELSE SubSeq(prev, 1, Len(prev) - 1)

\* stock.find((s) => s.item === item && s.quantity === quantity)
Matches(stk, p) == {i \in 1..Len(stk) : stk[i].item = p.item /\ stk[i].quantity = p.quantity}

FirstMatch(stk, p) == stk[CHOOSE i \in Matches(stk, p) : \A j \in Matches(stk, p) : i <= j]

\* effect on [stock]: give pending add entries the id of the matching record
resolvePending(prev, stk) ==
    [i \in 1..Len(prev) |->
        IF prev[i].type = "add" /\ IsPending(prev[i].stockId)
           /\ Matches(stk, PendingParts(prev[i].stockId)) # {}
        THEN [prev[i] EXCEPT !.stockId = FirstMatch(stk, PendingParts(prev[i].stockId)).id]
        ELSE prev[i]]

\* startEditing: the value put into the edit box
EditBoxValue(stockItem, field) ==
    IF field = "stock_level" THEN LevelToCode(stockItem.stock_level) ELSE stockItem[field]

Values == Items \cup Quantities \cup LevelCodes

\* what can be typed into the edit box of a field
Typed(field) ==
    CASE field = "item" -> Items
      [] field = "quantity" -> Quantities
      [] field = "stock_level" -> LevelCodes


(***************************************************************************)
(* User actions on StockTable                                              *)
(***************************************************************************)
\* onBlur={cancelEditing}: a click outside the edit box ends the edit
cancelEditing ==
    /\ editingId' = NULL
    /\ editingField' = NULL
    /\ originalValue' = ""

CanCall == Cardinality(DOMAIN calls) < MaxCalls

\* fetch(...) : the call leaves the browser
Send(call) ==
    /\ calls' = calls @@ ((ops + 1) :> Merge(call, [phase |-> "sent"]))
    /\ ops' = ops + 1

\* handleAddStock, up to the await
\* the text that adds the record a
Keyed(a) ==
    << a.item, " ", "/", " ", a.quantity, " ", "/", " ", LevelToCode(a.stock_level) >>

\* the user puts input into the add box and presses Enter
HandleAddStock(input) ==
    /\ ~isAdding
    /\ newStockInput' = input
    /\ cancelEditing
    /\ last' = [op |-> "handleAddStock"]
    /\ IF Trim(input) = <<>>
       THEN UNCHANGED <<calls, ops, isAdding, showError, errorMessage>>
       ELSE IF parseStockInput(input) = NoParse
            THEN /\ errorMessage' = InvalidFormat
                 /\ showError' = TRUE
                 /\ UNCHANGED <<calls, ops, isAdding>>
            ELSE /\ CanCall
                 /\ isAdding' = TRUE
                 /\ Send([kind |-> "create", origin |-> "handleAddStock",
                          body |-> [item |-> parseStockInput(input).item,
                                    quantity |-> parseStockInput(input).quantity,
                                    stock_level |-> parseStockInput(input).stockLevel]])
                 /\ UNCHANGED <<showError, errorMessage>>
    /\ UNCHANGED <<backend, nextId, created, events, stock, isLoading, error>>
    /\ UNCHANGED <<undoStack, isUndoing>>
    /\ UNCHANGED nonStockVars

\* onClose of the input error modal
CloseError ==
    /\ showError
    /\ showError' = FALSE
    /\ last' = [op |-> "closeError"]
    /\ UNCHANGED <<newStockInput, errorMessage>>
    /\ UNCHANGED storeVars
    /\ UNCHANGED tableVars
    /\ UNCHANGED countVars
    /\ UNCHANGED nonStockVars

\* handleDelete(stockItem), up to the await
HandleDelete(i) ==
    /\ CanCall
    /\ Send([kind |-> "delete", origin |-> "handleDelete", id |-> stock[i].id,
             stockItem |-> stock[i]])
    /\ cancelEditing
    /\ last' = [op |-> "handleDelete", id |-> stock[i].id]
    /\ UNCHANGED <<backend, nextId, created, events, stock, isLoading, error>>
    /\ UNCHANGED <<undoStack, isUndoing, isAdding>>
    /\ UNCHANGED addBoxVars
    /\ UNCHANGED nonStockVars

\* startEditing(stockItem, field)
StartEditing(i, field) ==
    /\ ops' = ops + 1
    /\ editingId' = stock[i].id
    /\ editingField' = field
    /\ originalValue' = EditBoxValue(stock[i], field)
    /\ last' = [op |-> "startEditing"]
    /\ UNCHANGED storeVars
    /\ UNCHANGED <<undoStack, isUndoing, isAdding>>
    /\ UNCHANGED addBoxVars
    /\ UNCHANGED nonStockVars

\* cancelEditing (Escape)
CancelEditing ==
    /\ editingId # NULL
    /\ ops' = ops + 1
    /\ cancelEditing
    /\ last' = [op |-> "cancelEditing"]
    /\ UNCHANGED storeVars
    /\ UNCHANGED <<undoStack, isUndoing, isAdding>>
    /\ UNCHANGED addBoxVars
    /\ UNCHANGED nonStockVars

\* the PUT saveEditing sends and the undo entry it will push
SaveCall(id, field, original, v) ==
    LET actualNewValue == IF field = "stock_level" THEN CodeToLevel(v) ELSE v
    IN [kind |-> "update", origin |-> "saveEditing", id |-> id,
        body |-> [f \in {field} |-> actualNewValue],
        operation |-> [type |-> "edit", stockId |-> id, field |-> field,
                       oldValue |-> original, newValue |-> actualNewValue]]

\* saveEditing with a changed value, up to the await
SaveEditing(v) ==
    /\ editingId # NULL /\ editingField # NULL
    /\ v \in Typed(editingField)
    /\ v # originalValue
    /\ CanCall
    /\ Send(SaveCall(editingId, editingField, originalValue, v))
    /\ last' = [op |-> "saveEditing", id |-> editingId]
    /\ UNCHANGED <<backend, nextId, created, events, stock, isLoading, error>>
    /\ UNCHANGED tableVars
    /\ UNCHANGED addBoxVars
    /\ UNCHANGED nonStockVars

\* startEditing immediately followed by saveEditing: click a cell, type, Enter
Edit(i, field, v) ==
    /\ v \in Typed(field)
    /\ v # EditBoxValue(stock[i], field)
    /\ CanCall
    /\ Send(SaveCall(stock[i].id, field, EditBoxValue(stock[i], field), v))
    /\ editingId' = stock[i].id
    /\ editingField' = field
    /\ originalValue' = EditBoxValue(stock[i], field)
    /\ last' = [op |-> "saveEditing", id |-> stock[i].id]
    /\ UNCHANGED <<backend, nextId, created, events, stock, isLoading, error>>
    /\ UNCHANGED <<undoStack, isUndoing, isAdding>>
    /\ UNCHANGED addBoxVars
    /\ UNCHANGED nonStockVars

\* the request handleUndo sends for the entry on top of the stack
InverseCall(operation) ==
    CASE operation.type = "delete" ->
            [kind |-> "create",
             body |-> [item |-> operation.stock.item, quantity |-> operation.stock.quantity,
                       stock_level |-> operation.stock.stock_level]]
      [] operation.type = "add" ->
            [kind |-> "delete", id |-> operation.stockId]
      [] operation.type = "edit" ->
            [kind |-> "update", id |-> operation.stockId,
             body |-> [f \in {operation.field} |-> operation.oldValue]]

\* variant: the guard does not look at isUndoing
undoAllowed_NoFlag(stack, undoing) == Len(stack) # 0

\* if (undoStack.length === 0 || isUndoing) return;
undoAllowed(stack, undoing) == Len(stack) # 0 /\ ~undoing

\* handleUndo, up to the await
HandleUndo ==
    /\ undoAllowed(undoStack, isUndoing)
    /\ CanCall
    /\ LET operation == undoStack[Len(undoStack)]
       IN Send(Merge(InverseCall(operation),
                     [origin |-> "handleUndo", operation |-> operation]))
    /\ isUndoing' = TRUE
    /\ cancelEditing
    /\ last' = [op |-> "handleUndo"]
    /\ UNCHANGED <<backend, nextId, created, events, stock, isLoading, error>>
    /\ UNCHANGED <<undoStack, isAdding>>
    /\ UNCHANGED addBoxVars
    /\ UNCHANGED nonStockVars

\* refresh button (disabled while loading): fetchStock up to the await
Refresh ==
    /\ ~isLoading
    /\ CanCall
    /\ isLoading' = TRUE
    /\ error' = NULL
    /\ Send(LoadCall)
    /\ cancelEditing
    /\ last' = [op |-> "refresh"]
    /\ UNCHANGED <<backend, nextId, created, events, stock>>
    /\ UNCHANGED <<undoStack, isUndoing, isAdding>>
    /\ UNCHANGED addBoxVars
    /\ UNCHANGED nonStockVars


(***************************************************************************)
(* The backend: it serves a call, applies it to its collection and emits   *)
(* the push event                                                          *)
(***************************************************************************)
Answer(cid, ok, resp) ==
    calls' = [calls EXCEPT ![cid] = Merge(@, [phase |-> "answered", ok |-> ok, resp |-> resp])]

Emit(type, data) == events' = Append(events, [type |-> type, data |-> data])

\* payload of a stock_updated event: the updated record
UpdatedPayloads(rec, body) == { rec }

ReplaceRec(coll, rec) ==
    [i \in 1..Len(coll) |-> IF coll[i].id = rec.id THEN rec ELSE coll[i]]

\* non-OK status or unreachable backend: nothing is applied
ServeFail(cid) ==
    /\ cid \in DOMAIN calls /\ calls[cid].phase = "sent"
    /\ Answer(cid, FALSE, NULL)
    /\ last' = [op |-> "serveFail"]
    /\ UNCHANGED <<backend, nextId, created, events, stock, isLoading, error>>
    /\ UNCHANGED tableVars
    /\ UNCHANGED countVars
    /\ UNCHANGED addBoxVars
    /\ UNCHANGED nonStockVars

ServeLoad(cid) ==
    /\ cid \in DOMAIN calls /\ calls[cid].phase = "sent" /\ calls[cid].kind = "load"
    /\ Answer(cid, TRUE, backend)
    /\ last' = [op |-> "serveLoad"]
    /\ UNCHANGED <<backend, nextId, created, events, stock, isLoading, error>>
    /\ UNCHANGED tableVars
    /\ UNCHANGED countVars
    /\ UNCHANGED addBoxVars
    /\ UNCHANGED nonStockVars

ServeCreate(cid) ==
    /\ cid \in DOMAIN calls /\ calls[cid].phase = "sent" /\ calls[cid].kind = "create"
    /\ LET rec == Merge(calls[cid].body, [id |-> FreshId(nextId)])
       IN /\ backend' = Append(backend, rec)
          /\ Emit("stock_created", rec)
          /\ Answer(cid, TRUE, rec)
    /\ nextId' = nextId + 1
    /\ created' = created \cup {FreshId(nextId)}
    /\ last' = [op |-> "serveCreate"]
    /\ UNCHANGED <<stock, isLoading, error>>
    /\ UNCHANGED tableVars
    /\ UNCHANGED countVars
    /\ UNCHANGED addBoxVars
    /\ UNCHANGED nonStockVars

ServeUpdate(cid) ==
    /\ cid \in DOMAIN calls /\ calls[cid].phase = "sent" /\ calls[cid].kind = "update"
    /\ IF Has(backend, calls[cid].id)
       THEN LET rec == Merge(Find(backend, calls[cid].id), calls[cid].body)
            IN /\ backend' = ReplaceRec(backend, rec)
               /\ \E data \in UpdatedPayloads(rec, calls[cid].body) :
                      Emit("stock_updated", data)
               /\ Answer(cid, TRUE, rec)
       ELSE /\ Answer(cid, FALSE, NULL)
            /\ UNCHANGED <<backend, events>>
    /\ last' = [op |-> "serveUpdate"]
    /\ UNCHANGED <<nextId, created, stock, isLoading, error>>
    /\ UNCHANGED tableVars
    /\ UNCHANGED countVars
    /\ UNCHANGED addBoxVars
    /\ UNCHANGED nonStockVars

ServeDelete(cid) ==
    /\ cid \in DOMAIN calls /\ calls[cid].phase = "sent" /\ calls[cid].kind = "delete"
    /\ IF Has(backend, calls[cid].id)
       THEN /\ backend' = Filter(backend, calls[cid].id)
            /\ Emit("stock_deleted", [id |-> calls[cid].id])
            /\ Answer(cid, TRUE, [id |-> calls[cid].id])
       ELSE /\ Answer(cid, FALSE, NULL)
            /\ UNCHANGED <<backend, events>>
    /\ last' = [op |-> "serveDelete"]
    /\ UNCHANGED <<nextId, created, stock, isLoading, error>>
    /\ UNCHANGED tableVars
    /\ UNCHANGED countVars
    /\ UNCHANGED addBoxVars
    /\ UNCHANGED nonStockVars

\* writes of other sessions (the voice assistant, another browser)
OtherCreate(a) ==
    /\ LET rec == Merge(a, [id |-> FreshId(nextId)])
       IN /\ backend' = Append(backend, rec)
          /\ Emit("stock_created", rec)
    /\ nextId' = nextId + 1
    /\ ops' = ops + 1
    /\ last' = [op |-> "otherCreate"]
    /\ UNCHANGED <<created, calls, stock, isLoading, error>>
    /\ UNCHANGED tableVars
    /\ UNCHANGED addBoxVars
    /\ UNCHANGED nonStockVars

OtherUpdate(i, body) ==
    /\ LET rec == Merge(backend[i], body)
       IN /\ rec # backend[i]
          /\ backend' = ReplaceRec(backend, rec)
          /\ \E data \in UpdatedPayloads(rec, body) : Emit("stock_updated", data)
    /\ ops' = ops + 1
    /\ last' = [op |-> "otherUpdate", id |-> backend[i].id]
    /\ UNCHANGED <<nextId, created, calls, stock, isLoading, error>>
    /\ UNCHANGED tableVars
    /\ UNCHANGED addBoxVars
    /\ UNCHANGED nonStockVars

OtherDelete(i) ==
    /\ backend' = Filter(backend, backend[i].id)
    /\ Emit("stock_deleted", [id |-> backend[i].id])
    /\ ops' = ops + 1
    /\ last' = [op |-> "otherDelete", id |-> backend[i].id]
    /\ UNCHANGED <<nextId, created, calls, stock, isLoading, error>>
    /\ UNCHANGED tableVars
    /\ UNCHANGED addBoxVars
    /\ UNCHANGED nonStockVars


(***************************************************************************)
(* REST completions: the awaited response reaches the browser              *)
(***************************************************************************)
Answered(cid, origin) ==
    /\ cid \in DOMAIN calls
    /\ calls[cid].phase = "answered"
    /\ calls[cid].origin = origin

\* fetchStock after the await
CompleteLoad(cid) ==
    /\ Answered(cid, "fetchStock")
    /\ calls' = RemoveKey(calls, cid)
    /\ IF calls[cid].ok
       THEN /\ stock' = fetchStockOk(stock, calls[cid].resp)
            /\ undoStack' = resolvePending(undoStack, stock')
            /\ error' = error
            /\ last' = [op |-> "loadOk"]
       ELSE /\ stock' = fetchStockFail(stock)
            /\ error' = "Failed to load stock"
            /\ undoStack' = undoStack
            /\ last' = [op |-> "loadFail"]
    /\ isLoading' = FALSE
    /\ UNCHANGED <<backend, nextId, created, events>>
    /\ UNCHANGED <<isUndoing, isAdding, editingId, editingField, originalValue>>
    /\ UNCHANGED countVars
    /\ UNCHANGED addBoxVars
    /\ UNCHANGED nonStockVars

\* handleAddStock after the await: createStock adds nothing locally
CompleteAdd(cid) ==
    /\ Answered(cid, "handleAddStock")
    /\ calls' = RemoveKey(calls, cid)
    /\ IF calls[cid].ok
       THEN /\ undoStack' = pushUndo(undoStack,
                    [type |-> "add",
                     stockId |-> TempId(calls[cid].body.item, calls[cid].body.quantity,
                                        calls[cid].body.stock_level)])
            /\ last' = [op |-> "addOk", id |-> calls[cid].resp.id]
       ELSE /\ undoStack' = undoStack
            /\ last' = [op |-> "addFail"]
    /\ newStockInput' = IF calls[cid].ok THEN <<>> ELSE newStockInput
    /\ isAdding' = FALSE
    /\ UNCHANGED <<backend, nextId, created, events, stock, isLoading, error>>
    /\ UNCHANGED <<isUndoing, editingId, editingField, originalValue>>
    /\ UNCHANGED <<showError, errorMessage>>
    /\ UNCHANGED countVars
    /\ UNCHANGED nonStockVars

\* handleDelete after the await
CompleteDelete(cid) ==
    /\ Answered(cid, "handleDelete")
    /\ calls' = RemoveKey(calls, cid)
    /\ IF calls[cid].ok
       THEN /\ stock' = deleteStockOk(stock, calls[cid].id)
            /\ undoStack' = resolvePending(
                    pushUndo(undoStack, [type |-> "delete", stock |-> calls[cid].stockItem]),
                    stock')
            /\ last' = [op |-> "deleteOk", id |-> calls[cid].id]
       ELSE /\ UNCHANGED <<stock, undoStack>>
            /\ last' = [op |-> "deleteFail", id |-> calls[cid].id]
    /\ UNCHANGED <<backend, nextId, created, events, isLoading, error>>
    /\ UNCHANGED <<isUndoing, isAdding, editingId, editingField, originalValue>>
    /\ UNCHANGED countVars
    /\ UNCHANGED addBoxVars
    /\ UNCHANGED nonStockVars

\* saveEditing after the await
CompleteSave(cid) ==
    /\ Answered(cid, "saveEditing")
    /\ calls' = RemoveKey(calls, cid)
    /\ IF calls[cid].ok
       THEN /\ stock' = updateStockOk(stock, calls[cid].id, calls[cid].resp)
            /\ undoStack' = resolvePending(pushUndo(undoStack, calls[cid].operation), stock')
            /\ last' = [op |-> "updateOk", id |-> calls[cid].id]
       ELSE /\ UNCHANGED <<stock, undoStack>>
            /\ last' = [op |-> "updateFail", id |-> calls[cid].id]
    /\ cancelEditing
    /\ UNCHANGED <<backend, nextId, created, events, isLoading, error>>
    /\ UNCHANGED <<isUndoing, isAdding>>
    /\ UNCHANGED countVars
    /\ UNCHANGED addBoxVars
    /\ UNCHANGED nonStockVars

\* what the hook call awaited by handleUndo does to the collection on success
undoApply(prev, call) ==
    CASE call.kind = "create" -> prev
      [] call.kind = "delete" -> deleteStockOk(prev, call.id)
      [] call.kind = "update" -> updateStockOk(prev, call.id, call.resp)

\* setUndoStack((prev) => prev.slice(0, -1)) once the inverse call succeeded
undoDone(prev, operation) == dropTop(prev)

\* variant: the catch block pops the entry as well
undoFailed_Drop(prev) == dropTop(prev)

\* handleUndo's catch block: the stack is not touched
undoFailed(prev) == prev

\* handleUndo after the await
CompleteUndo(cid) ==
    /\ Answered(cid, "handleUndo")
    /\ calls' = RemoveKey(calls, cid)
    /\ IF calls[cid].ok
       THEN /\ stock' = undoApply(stock, calls[cid])
            /\ undoStack' = IF calls[cid].kind = "create"
                            THEN undoDone(undoStack, calls[cid].operation)
                            ELSE resolvePending(undoDone(undoStack, calls[cid].operation),
                                                stock')
            /\ last' = [op |-> "undoOk"]
       ELSE /\ stock' = stock
            /\ undoStack' = undoFailed(undoStack)
            /\ last' = [op |-> "undoFail"]
    /\ isUndoing' = FALSE
    /\ UNCHANGED <<backend, nextId, created, events, isLoading, error>>
    /\ UNCHANGED <<isAdding, editingId, editingField, originalValue>>
    /\ UNCHANGED countVars
    /\ UNCHANGED addBoxVars
    /\ UNCHANGED nonStockVars

(***************************************************************************)
(* SSE: the oldest undelivered event reaches the useStock listeners        *)
(***************************************************************************)
onEvent(prev, e) ==
    CASE e.type = "stock_created" -> stockCreated(prev, e.data)
      [] e.type = "stock_updated" -> stockUpdated(prev, e.data)
      [] e.type = "stock_deleted" -> stockDeleted(prev, e.data)

Deliver ==
    /\ Len(events) > 0
    /\ events' = Tail(events)
    /\ stock' = onEvent(stock, Head(events))
    /\ undoStack' = IF Head(events).type = "stock_created" /\ Has(stock, Head(events).data.id)
                    THEN undoStack
                    ELSE resolvePending(undoStack, stock')
    /\ last' = [op |-> "deliver", type |-> Head(events).type, id |-> Head(events).data.id,
                present |-> Has(stock, Head(events).data.id)]
    /\ UNCHANGED <<backend, nextId, created, calls, isLoading, error>>
    /\ UNCHANGED <<isUndoing, isAdding, editingId, editingField, originalValue>>
    /\ UNCHANGED countVars
    /\ UNCHANGED addBoxVars
    /\ UNCHANGED nonStockVars

\* the backend and the network move
SystemStep ==
    \/ \E cid \in DOMAIN calls : ServeFail(cid)
    \/ \E cid \in DOMAIN calls : ServeLoad(cid)
    \/ \E cid \in DOMAIN calls : ServeCreate(cid)
    \/ \E cid \in DOMAIN calls : ServeUpdate(cid)
    \/ \E cid \in DOMAIN calls : ServeDelete(cid)
    \/ \E cid \in DOMAIN calls : CompleteLoad(cid)
    \/ \E cid \in DOMAIN calls : CompleteAdd(cid)
    \/ \E cid \in DOMAIN calls : CompleteDelete(cid)
    \/ \E cid \in DOMAIN calls : CompleteSave(cid)
    \/ Deliver

\* the store under its user and other sessions
Next ==
    \/ ops < MaxOps /\ \E a \in AddInputs : HandleAddStock(Keyed(a))
    \/ ops < MaxOps /\ \E i \in 1..Len(stock) : HandleDelete(i)
    \/ ops < MaxOps /\ \E i \in 1..Len(stock), field \in EditFields, v \in Values :
                          Edit(i, field, v)
    \/ ops < MaxOps /\ Refresh
    \/ ops < MaxOps /\ \E a \in AddInputs : OtherCreate(a)
    \/ ops < MaxOps /\ \E i \in 1..Len(backend), body \in OtherUpdates : OtherUpdate(i, body)
    \/ ops < MaxOps /\ \E i \in 1..Len(backend) : OtherDelete(i)
    \/ SystemStep

Spec == Init /\ [][Next]_vars

\* the table with its undo stack, no other session writing
NextUndo ==
    \/ ops < MaxTableOps /\ \E a \in AddInputs : HandleAddStock(Keyed(a))
    \/ ops < MaxTableOps /\ \E i \in 1..Len(stock) : HandleDelete(i)
    \/ ops < MaxTableOps /\ \E i \in 1..Len(stock), field \in EditFields : StartEditing(i, field)
    \/ ops < MaxTableOps /\ CancelEditing
    \/ ops < MaxTableOps /\ \E v \in Values : SaveEditing(v)
    \/ ops < MaxTableOps /\ HandleUndo
    \/ \E cid \in DOMAIN calls : CompleteUndo(cid)
    \/ SystemStep

SpecUndo == Init /\ [][NextUndo]_vars

\* the page opened with a text already typed into the add box
InitAdd ==
    /\ newStockInput \in TypedInputs
    /\ StockMounted /\ TodoInit /\ TerminalInit /\ FreezerInit /\ ProxyInit /\ ChatInit /\ EventsInit /\ SessionInit /\ ListenerInit /\ GatingInit /\ VersionInit

\* the add box alone, the backend answering every call: the text in the box is
\* submitted as it stands
NextAdd ==
    \/ ops < MaxOps /\ HandleAddStock(newStockInput)
    \/ CloseError
    \/ \E cid \in DOMAIN calls : ServeLoad(cid)
    \/ \E cid \in DOMAIN calls : ServeCreate(cid)
    \/ \E cid \in DOMAIN calls : CompleteLoad(cid)
    \/ \E cid \in DOMAIN calls : CompleteAdd(cid)
    \/ Deliver

SpecAdd == InitAdd /\ [][NextAdd]_vars


(***************************************************************************)
(* Properties of the add box                                               *)
(***************************************************************************)
Slashes(s) == {i \in 1..Len(s) : s[i] = "/"}

\* the text between positions a and b, without the blanks around it
Piece(s, a, b) == Trim(SubSeq(s, a + 1, b - 1))

\* the three pieces of a text that holds exactly two '/'
ThreeParts(s) ==
    LET i == CHOOSE i \in Slashes(s) : \A j \in Slashes(s) : i <= j
        j == CHOOSE j \in Slashes(s) : \A i2 \in Slashes(s) : i2 <= j
    IN  << Piece(s, 0, i), Piece(s, i, j), Piece(s, j, Len(s) + 1) >>

Acceptable(s) ==
    /\ Cardinality(Slashes(s)) = 2
    /\ \A k \in 1..3 : ThreeParts(s)[k] # <<>>
    /\ ThreeParts(s)[3] \in { << c >> : c \in LevelCodes }

LevelOf == ("+" :> "sufficient") @@ ("-" :> "running_low") @@ ("0" :> "out_of_stock")

\* the step is a run of handleAddStock
Submitted == last'.op = "handleAddStock"

\* one create request leaves, carrying the three parts of the text
AddSent(s) ==
    \E cid \in DOMAIN calls' \ DOMAIN calls :
        /\ DOMAIN calls' = DOMAIN calls \cup {cid}
        /\ calls'[cid].kind = "create"
        /\ calls'[cid].body = [item |-> Join(ThreeParts(s)[1]),
                               quantity |-> Join(ThreeParts(s)[2]),
                               stock_level |-> LevelOf[ThreeParts(s)[3][1]]]

NothingSent ==
    /\ calls' = calls /\ backend' = backend
    /\ stock' = stock /\ undoStack' = undoStack

AddRejected == showError' /\ errorMessage' = InvalidFormat /\ NothingSent

\* C17: the text of the add box is accepted exactly when it splits on '/' into
\* three non-empty trimmed parts with '+', '-' or '0' as the third, and then a
\* create request carries item, quantity and the stock level of that character;
\* every other text raises the validation error, sends nothing and leaves the
\* collection and the undo stack alone.
C17_AddInputAcceptedExactly ==
    [][Submitted =>
          IF Acceptable(newStockInput')
          THEN AddSent(newStockInput')
          ELSE AddRejected]_vars

\* C17 as the code has it: a text of blanks only is ignored without any error,
\* every other text that is not accepted raises the validation error; neither
\* sends a request nor changes the collection or the undo stack.
C17_BlankIgnoredOthersRejected ==
    [][Submitted =>
          IF Acceptable(newStockInput')
          THEN AddSent(newStockInput')
          ELSE IF Trim(newStockInput') = <<>>
               THEN /\ showError' = showError /\ errorMessage' = errorMessage
                    /\ NothingSent
               ELSE AddRejected]_vars

C17_Witness ==
    /\ last.op = "handleAddStock"
    /\ newStockInput = << "a", "/", "/", "+" >>
    /\ showError /\ errorMessage = InvalidFormat
    /\ \A cid \in DOMAIN calls : calls[cid].kind # "create"

(***************************************************************************)
(* TodoTable: its SSE listeners, toggle-complete and delete                *)
(***************************************************************************)
\* todo_created listener: add unless a todo with that id is present
todoCreated(prev, data) ==
    IF Has(prev, data.id) THEN prev ELSE Append(prev, data)

\* todo_updated listener: prev.map(item => item.id === data.id ? data : item)
todoUpdated(prev, data) ==
    [i \in 1..Len(prev) |-> IF prev[i].id = data.id THEN data ELSE prev[i]]

\* todo_deleted listener: prev.filter(item => item.id !== data.id)
todoDeleted(prev, data) == Filter(prev, data.id)

onTodoEvent(prev, e) ==
    CASE e.type = "todo_created" -> todoCreated(prev, e.data)
      [] e.type = "todo_updated" -> todoUpdated(prev, e.data)
      [] e.type = "todo_deleted" -> todoDeleted(prev, e.data)

\* todo.completed, undefined (falsy) on a record that lacks the field
isCompleted(t) == "completed" \in DOMAIN t /\ t.completed

\* handleToggleComplete: the optimistic record
toggled(t) ==
    Merge(t, [completed |-> ~isCompleted(t),
              completed_at |-> IF ~isCompleted(t) THEN Now ELSE NULL])

\* prev.map(t => t.id === id ? record : t)
putTodo(prev, id, record) ==
    [i \in 1..Len(prev) |-> IF prev[i].id = id THEN record ELSE prev[i]]

TodoCanCall == Cardinality(DOMAIN todoCalls) < MaxCalls

TodoSend(call) ==
    /\ todoCalls' = todoCalls @@ ((todoOps + 1) :> Merge(call, [phase |-> "sent"]))
    /\ todoOps' = todoOps + 1

\* handleToggleComplete(id), up to the await
HandleToggleComplete(i) ==
    /\ TodoCanCall
    /\ todos' = putTodo(todos, todos[i].id, toggled(todos[i]))
    /\ TodoSend([kind |-> "patch", origin |-> "handleToggleComplete", id |-> todos[i].id,
                 body |-> [completed |-> ~isCompleted(todos[i])],
                 previousState |-> todos[i]])
    /\ todoLast' = [op |-> "handleToggleComplete", id |-> todos[i].id]
    /\ UNCHANGED <<todoBackend, todoEvents, todoLoading, todoError, lastAction>>
    /\ UNCHANGED <<todoNextId, todoUndoing>>
    /\ UNCHANGED <<undoTimer, slotAge>>
    /\ UNCHANGED nonTodoVars

\* TodoTable.handleDelete(id), up to the await
HandleDeleteTodo(i) ==
    /\ TodoCanCall
    /\ TodoSend([kind |-> "delete", origin |-> "handleDelete", id |-> todos[i].id,
                 itemToDelete |-> todos[i]])
    /\ todoLast' = [op |-> "handleDelete", id |-> todos[i].id]
    /\ UNCHANGED <<todoBackend, todoEvents, todos, todoLoading, todoError, lastAction>>
    /\ UNCHANGED <<todoNextId, todoUndoing>>
    /\ UNCHANGED <<undoTimer, slotAge>>
    /\ UNCHANGED nonTodoVars

\* the fields of record r among fs that r has (JSON.stringify drops undefined)
Defined(r, fs) == [f \in fs \cap DOMAIN r |-> r[f]]

\* the request TodoTable.handleUndo sends for the action in the slot
InverseTodoCall(action) ==
    CASE action.type = "delete" ->
            [kind |-> "create", body |-> Defined(action.item, {"content"})]
      [] action.type = "create" ->
            [kind |-> "delete", id |-> action.item.id]
      [] action.type = "update" ->
            [kind |-> "patch", id |-> action.item.id,
             body |-> Defined(action.previousState, {"content", "completed"})]

\* TodoTable.handleUndo, up to the await
HandleUndoTodo ==
    /\ lastAction # NoAction /\ ~todoUndoing
    /\ TodoCanCall
    /\ todoUndoing' = TRUE
    /\ TodoSend(Merge(InverseTodoCall(lastAction),
                      [origin |-> "handleUndo", action |-> lastAction]))
    /\ todoLast' = [op |-> "handleUndo"]
    /\ UNCHANGED <<todoBackend, todoEvents, todos, todoLoading, todoError, lastAction,
                   todoNextId>>
    /\ UNCHANGED <<undoTimer, slotAge>>
    /\ UNCHANGED nonTodoVars

\* variant: a timeout already pending is kept when the slot changes
armTimer_KeepPending(timer, slot) ==
    IF slot = NoAction THEN NoTimer
    ELSE IF timer.armed THEN timer ELSE [armed |-> TRUE, left |-> ExpiryTicks]

\* undo expiry effect on [lastAction]: the cleanup clears the pending timeout,
\* a non-null slot arms a new one of 30 s
armTimer(timer, slot) ==
    IF slot = NoAction THEN NoTimer ELSE [armed |-> TRUE, left |-> ExpiryTicks]

\* setLastAction(entry) and the effect that follows it
SetLastAction(entry) ==
    /\ lastAction' = entry
    /\ undoTimer' = armTimer(undoTimer, entry)
    /\ slotAge' = 0

KeepLastAction == UNCHANGED <<lastAction, undoTimer, slotAge>>

\* time passes; a timeout that is due fires before more time passes
TodoTick ==
    /\ undoTimer.armed /\ undoTimer.left > 0
    /\ undoTimer' = [undoTimer EXCEPT !.left = @ - 1]
    /\ slotAge' = slotAge + 1
    /\ todoLast' = [op |-> "tick"]
    /\ UNCHANGED <<todoBackend, todoEvents, todoCalls, todos, todoLoading, todoError,
                   lastAction, todoUndoing, todoNextId, todoOps>>
    /\ UNCHANGED nonTodoVars

\* the undo slot's 30 s timer fires: setLastAction(null)
ExpireLastAction ==
    /\ undoTimer.armed /\ undoTimer.left = 0
    /\ SetLastAction(NoAction)
    /\ todoLast' = [op |-> "expire"]
    /\ UNCHANGED <<todoBackend, todoEvents, todoCalls, todos, todoLoading, todoError, todoOps>>
    /\ UNCHANGED <<todoNextId, todoUndoing>>
    /\ UNCHANGED nonTodoVars

\* how a request can fail: a non-OK response, or fetch itself rejecting
FailureModes == {"status", "network"}

\* an HTTP response comes back
TodoAnswer(cid, ok, resp) ==
    todoCalls' = [todoCalls EXCEPT ![cid] =
                      Merge(@, [phase |-> "answered", ok |-> ok, resp |-> resp,
                                how |-> "status"])]

TodoEmit(type, data) == todoEvents' = Append(todoEvents, [type |-> type, data |-> data])

\* the record after PATCH body was applied by the backend
patched(rec, body) ==
    LET r == Merge(rec, body)
    IN IF "completed" \in DOMAIN body
       THEN [r EXCEPT !.completed_at = IF body.completed THEN Now ELSE NULL]
       ELSE r

\* payload of a todo_updated event: the whole record, or the key with the changes
TodoUpdatedPayloads(rec, body) ==
    { rec, Merge([id |-> rec.id], [f \in DOMAIN body |-> rec[f]]) }

TodoServeFail(cid) ==
    /\ todoCalls[cid].phase = "sent"
    /\ \E how \in FailureModes :
          todoCalls' = [todoCalls EXCEPT ![cid] =
                            Merge(@, [phase |-> "answered", ok |-> FALSE, resp |-> NULL,
                                      how |-> how])]
    /\ todoLast' = [op |-> "serveFail"]
    /\ UNCHANGED <<todoBackend, todoEvents, todos, todoLoading, todoError, lastAction, todoOps>>
    /\ UNCHANGED <<todoNextId, todoUndoing>>
    /\ UNCHANGED <<undoTimer, slotAge>>
    /\ UNCHANGED nonTodoVars

TodoServeLoad(cid) ==
    /\ todoCalls[cid].phase = "sent" /\ todoCalls[cid].kind = "load"
    /\ TodoAnswer(cid, TRUE, todoBackend)
    /\ todoLast' = [op |-> "serveLoad"]
    /\ UNCHANGED <<todoBackend, todoEvents, todos, todoLoading, todoError, lastAction, todoOps>>
    /\ UNCHANGED <<todoNextId, todoUndoing>>
    /\ UNCHANGED <<undoTimer, slotAge>>
    /\ UNCHANGED nonTodoVars

TodoServePatch(cid) ==
    /\ todoCalls[cid].phase = "sent" /\ todoCalls[cid].kind = "patch"
    /\ IF Has(todoBackend, todoCalls[cid].id)
       THEN LET rec == patched(Find(todoBackend, todoCalls[cid].id), todoCalls[cid].body)
            IN /\ todoBackend' = putTodo(todoBackend, rec.id, rec)
               /\ \E data \in TodoUpdatedPayloads(rec, todoCalls[cid].body) :
                      TodoEmit("todo_updated", data)
               /\ TodoAnswer(cid, TRUE, rec)
       ELSE /\ TodoAnswer(cid, FALSE, NULL)
            /\ UNCHANGED <<todoBackend, todoEvents>>
    /\ todoLast' = [op |-> "servePatch"]
    /\ UNCHANGED <<todos, todoLoading, todoError, lastAction, todoOps>>
    /\ UNCHANGED <<todoNextId, todoUndoing>>
    /\ UNCHANGED <<undoTimer, slotAge>>
    /\ UNCHANGED nonTodoVars

TodoServeDelete(cid) ==
    /\ todoCalls[cid].phase = "sent" /\ todoCalls[cid].kind = "delete"
    /\ IF Has(todoBackend, todoCalls[cid].id)
       THEN /\ todoBackend' = Filter(todoBackend, todoCalls[cid].id)
            /\ TodoEmit("todo_deleted", [id |-> todoCalls[cid].id])
            /\ TodoAnswer(cid, TRUE, [id |-> todoCalls[cid].id])
       ELSE /\ TodoAnswer(cid, FALSE, NULL)
            /\ UNCHANGED <<todoBackend, todoEvents>>
    /\ todoLast' = [op |-> "serveDelete"]
    /\ UNCHANGED <<todos, todoLoading, todoError, lastAction, todoOps>>
    /\ UNCHANGED <<todoNextId, todoUndoing>>
    /\ UNCHANGED <<undoTimer, slotAge>>
    /\ UNCHANGED nonTodoVars

\* POST /todos: a todo with the given content, not completed, under a new id
newTodo(body, n) ==
    [id |-> "t" \o ToString(n), content |-> body.content, completed |-> FALSE,
     created_at |-> Now, completed_at |-> NULL]

TodoServeCreate(cid) ==
    /\ todoCalls[cid].phase = "sent" /\ todoCalls[cid].kind = "create"
    /\ IF "content" \in DOMAIN todoCalls[cid].body
       THEN /\ todoBackend' = Append(todoBackend, newTodo(todoCalls[cid].body, todoNextId))
            /\ TodoEmit("todo_created", newTodo(todoCalls[cid].body, todoNextId))
            /\ TodoAnswer(cid, TRUE, newTodo(todoCalls[cid].body, todoNextId))
            /\ todoNextId' = todoNextId + 1
       ELSE /\ TodoAnswer(cid, FALSE, NULL)
            /\ UNCHANGED <<todoBackend, todoEvents, todoNextId>>
    /\ todoLast' = [op |-> "serveCreate"]
    /\ UNCHANGED <<todos, todoLoading, todoError, lastAction, todoUndoing, todoOps>>
    /\ UNCHANGED <<undoTimer, slotAge>>
    /\ UNCHANGED nonTodoVars

\* another session (the voice assistant) patches a todo
OtherTodoUpdate(i, body) ==
    /\ LET rec == patched(todoBackend[i], body)
       IN /\ rec # todoBackend[i]
          /\ todoBackend' = putTodo(todoBackend, rec.id, rec)
          /\ \E data \in TodoUpdatedPayloads(rec, body) : TodoEmit("todo_updated", data)
    /\ todoOps' = todoOps + 1
    /\ todoLast' = [op |-> "otherUpdate", id |-> todoBackend[i].id]
    /\ UNCHANGED <<todoCalls, todos, todoLoading, todoError, lastAction>>
    /\ UNCHANGED <<todoNextId, todoUndoing>>
    /\ UNCHANGED <<undoTimer, slotAge>>
    /\ UNCHANGED nonTodoVars

TodoAnswered(cid, origin) ==
    /\ todoCalls[cid].phase = "answered"
    /\ todoCalls[cid].origin = origin

\* fetchTodos after the await
CompleteFetchTodos(cid) ==
    /\ TodoAnswered(cid, "fetchTodos")
    /\ todoCalls' = RemoveKey(todoCalls, cid)
    /\ IF todoCalls[cid].ok
       THEN /\ todos' = todoCalls[cid].resp
            /\ todoError' = todoError
            /\ todoLast' = [op |-> "loadOk"]
       ELSE /\ todos' = todos
            /\ todoError' = "Failed to load todos"
            /\ todoLast' = [op |-> "loadFail"]
    /\ todoLoading' = FALSE
    /\ UNCHANGED <<todoBackend, todoEvents, lastAction, todoOps>>
    /\ UNCHANGED <<todoNextId, todoUndoing>>
    /\ UNCHANGED <<undoTimer, slotAge>>
    /\ UNCHANGED nonTodoVars

\* handleToggleComplete when the request failed: the revert sits in the
\* !response.ok branch, the catch block only shows the error
toggleFailed(prev, call) ==
    IF call.how = "status" THEN putTodo(prev, call.id, call.previousState) ELSE prev

\* handleToggleComplete after the await
CompleteToggle(cid) ==
    /\ TodoAnswered(cid, "handleToggleComplete")
    /\ todoCalls' = RemoveKey(todoCalls, cid)
    /\ IF todoCalls[cid].ok
       THEN /\ SetLastAction([type |-> "update", item |-> todoCalls[cid].resp,
                                previousState |-> todoCalls[cid].previousState])
            /\ todos' = todos
            /\ todoLast' = [op |-> "toggleOk", id |-> todoCalls[cid].id]
       ELSE /\ todos' = toggleFailed(todos, todoCalls[cid])
            /\ KeepLastAction
            /\ todoLast' = [op |-> "toggleFail", id |-> todoCalls[cid].id]
    /\ UNCHANGED <<todoBackend, todoEvents, todoLoading, todoError, todoOps>>
    /\ UNCHANGED <<todoNextId, todoUndoing>>
    /\ UNCHANGED nonTodoVars

\* TodoTable.handleDelete after the await
CompleteDeleteTodo(cid) ==
    /\ TodoAnswered(cid, "handleDelete")
    /\ todoCalls' = RemoveKey(todoCalls, cid)
    /\ IF todoCalls[cid].ok
       THEN /\ SetLastAction([type |-> "delete", item |-> todoCalls[cid].itemToDelete])
            /\ todos' = Filter(todos, todoCalls[cid].id)
            /\ todoLast' = [op |-> "deleteOk", id |-> todoCalls[cid].id]
       ELSE /\ todos' = todos
            /\ KeepLastAction
            /\ todoLast' = [op |-> "deleteFail", id |-> todoCalls[cid].id]
    /\ UNCHANGED <<todoBackend, todoEvents, todoLoading, todoError, todoOps>>
    /\ UNCHANGED <<todoNextId, todoUndoing>>
    /\ UNCHANGED nonTodoVars

\* TodoTable.handleUndo after the await
CompleteUndoTodo(cid) ==
    /\ TodoAnswered(cid, "handleUndo")
    /\ todoCalls' = RemoveKey(todoCalls, cid)
    /\ IF todoCalls[cid].ok
       THEN /\ todos' = IF todoCalls[cid].action.type = "create"
                         THEN Filter(todos, todoCalls[cid].action.item.id)
                         ELSE todos
            /\ SetLastAction(NoAction)
            /\ todoLast' = [op |-> "undoOk", type |-> todoCalls[cid].action.type]
       ELSE /\ todos' = todos
            /\ KeepLastAction
            /\ todoLast' = [op |-> "undoFail", type |-> todoCalls[cid].action.type]
    /\ todoUndoing' = FALSE
    /\ UNCHANGED <<todoBackend, todoEvents, todoLoading, todoError, todoNextId, todoOps>>
    /\ UNCHANGED nonTodoVars

\* the oldest undelivered event reaches the TodoTable listeners
DeliverTodo ==
    /\ Len(todoEvents) > 0
    /\ todoEvents' = Tail(todoEvents)
    /\ todos' = onTodoEvent(todos, Head(todoEvents))
    /\ todoLast' = [op |-> "deliver", type |-> Head(todoEvents).type,
                    data |-> Head(todoEvents).data,
                    present |-> Has(todos, Head(todoEvents).data.id)]
    /\ UNCHANGED <<todoBackend, todoCalls, todoLoading, todoError, lastAction, todoOps>>
    /\ UNCHANGED <<todoNextId, todoUndoing>>
    /\ UNCHANGED <<undoTimer, slotAge>>
    /\ UNCHANGED nonTodoVars

NextTodo ==
    \/ todoOps < MaxTodoOps /\ \E i \in 1..Len(todos) : HandleToggleComplete(i)
    \/ todoOps < MaxTodoOps /\ \E i \in 1..Len(todos) : HandleDeleteTodo(i)
    \/ todoOps < MaxTodoOps /\ \E i \in 1..Len(todoBackend), body \in OtherTodoUpdates :
                                  OtherTodoUpdate(i, body)
    \/ todoOps < MaxTodoOps /\ HandleUndoTodo
    \/ TodoTick
    \/ ExpireLastAction
    \/ \E cid \in DOMAIN todoCalls : TodoServeCreate(cid)
    \/ \E cid \in DOMAIN todoCalls : CompleteUndoTodo(cid)
    \/ \E cid \in DOMAIN todoCalls : TodoServeFail(cid)
    \/ \E cid \in DOMAIN todoCalls : TodoServeLoad(cid)
    \/ \E cid \in DOMAIN todoCalls : TodoServePatch(cid)
    \/ \E cid \in DOMAIN todoCalls : TodoServeDelete(cid)
    \/ \E cid \in DOMAIN todoCalls : CompleteFetchTodos(cid)
    \/ \E cid \in DOMAIN todoCalls : CompleteToggle(cid)
    \/ \E cid \in DOMAIN todoCalls : CompleteDeleteTodo(cid)
    \/ DeliverTodo

SpecTodo == Init /\ [][NextTodo]_vars

\* the todo table with its undo slot, no other session writing and the backend
\* answering every call
NextSlot ==
    \/ todoOps < MaxSlotOps /\ \E i \in 1..Len(todos) : HandleToggleComplete(i)
    \/ todoOps < MaxSlotOps /\ \E i \in 1..Len(todos) : HandleDeleteTodo(i)
    \/ todoOps < MaxSlotOps /\ HandleUndoTodo
    \/ TodoTick
    \/ ExpireLastAction
    \/ \E cid \in DOMAIN todoCalls : TodoServeCreate(cid)
    \/ \E cid \in DOMAIN todoCalls : CompleteUndoTodo(cid)
    \/ \E cid \in DOMAIN todoCalls : TodoServeLoad(cid)
    \/ \E cid \in DOMAIN todoCalls : TodoServePatch(cid)
    \/ \E cid \in DOMAIN todoCalls : TodoServeDelete(cid)
    \/ \E cid \in DOMAIN todoCalls : CompleteFetchTodos(cid)
    \/ \E cid \in DOMAIN todoCalls : CompleteToggle(cid)
    \/ \E cid \in DOMAIN todoCalls : CompleteDeleteTodo(cid)
    \/ DeliverTodo

SpecSlot == Init /\ [][NextSlot]_vars


(***************************************************************************)
(* TerminalEvents: the two versions of the events terminal                 *)
(***************************************************************************)
\* JSON.parse(e.data): the parsed object, or a SyntaxError
JsonParse(raw) ==
    CASE raw = "{}" -> [ok |-> TRUE, value |-> "{}"]
      [] raw = "{\"turn_count\":1}" -> [ok |-> TRUE, value |-> "{turn_count: 1}"]
      [] OTHER -> [ok |-> FALSE]

\* [...prev, { id: eventIdRef.current++, type, data }]
logEvent(prev, id, type, data) == Append(prev, [id |-> id, type |-> type, data |-> data])

\* es.onopen of either terminal
TerminalOnOpen ==
    /\ \/ termStatus # "connected" /\ termStatus' = "connected"
                                   /\ termAllStatus' = termAllStatus
       \/ termAllStatus # "connected" /\ termAllStatus' = "connected"
                                      /\ termStatus' = termStatus
    /\ termLast' = [op |-> "open"]
    /\ UNCHANGED <<termEvents, termEventId, termAllEvents, termAllEventId, uncaught, received>>
    /\ UNCHANGED nonTerminalVars

\* es.onerror of either terminal
TerminalOnError ==
    /\ \/ termStatus # "disconnected" /\ termStatus' = "disconnected"
                                      /\ termAllStatus' = termAllStatus
       \/ termAllStatus # "disconnected" /\ termAllStatus' = "disconnected"
                                         /\ termStatus' = termStatus
    /\ termLast' = [op |-> "error"]
    /\ UNCHANGED <<termEvents, termEventId, termAllEvents, termAllEventId, uncaught, received>>
    /\ UNCHANGED nonTerminalVars

\* listener of the terminal that shows two event types: no try around JSON.parse
TerminalOnMessage(type, raw) ==
    /\ received < MaxMessages
    /\ received' = received + 1
    /\ IF JsonParse(raw).ok
       THEN /\ termEvents' = logEvent(termEvents, termEventId, type, JsonParse(raw).value)
            /\ termEventId' = termEventId + 1
            /\ uncaught' = uncaught
       ELSE /\ uncaught' = uncaught + 1
            /\ UNCHANGED <<termEvents, termEventId>>
    /\ termLast' = [op |-> "message", terminal |-> "two", valid |-> JsonParse(raw).ok]
    /\ UNCHANGED <<termStatus, termAllEvents, termAllEventId, termAllStatus>>
    /\ UNCHANGED nonTerminalVars

\* listener of the terminal that shows all event types: the catch logs data {}
TerminalAllOnMessage(type, raw) ==
    /\ received < MaxMessages
    /\ received' = received + 1
    /\ termAllEvents' = logEvent(termAllEvents, termAllEventId, type,
                                 IF JsonParse(raw).ok THEN JsonParse(raw).value ELSE "{}")
    /\ termAllEventId' = termAllEventId + 1
    /\ termLast' = [op |-> "message", terminal |-> "all", valid |-> JsonParse(raw).ok]
    /\ UNCHANGED <<termEvents, termEventId, termStatus, termAllStatus, uncaught>>
    /\ UNCHANGED nonTerminalVars

NextTerminal ==
    \/ TerminalOnOpen
    \/ TerminalOnError
    \/ \E type \in TerminalEventTypes, raw \in RawPayloads : TerminalOnMessage(type, raw)
    \/ \E type \in SSE_EVENT_TYPES, raw \in RawPayloads : TerminalAllOnMessage(type, raw)

SpecTerminal == Init /\ [][NextTerminal]_vars


(***************************************************************************)
(* FreezerTable and useFreezer: the add box, its checks and the create call  *)
(***************************************************************************)
UpperCase == ("a" :> "A") @@ ("b" :> "B") @@ ("c" :> "C") @@ ("d" :> "D") @@ ("x" :> "X")

\* String.prototype.toUpperCase
ToUpperCase(s) ==
    [i \in 1..Len(s) |-> IF s[i] \in DOMAIN UpperCase THEN UpperCase[s[i]] ELSE s[i]]

\* /^[A-Z0-9]{3}$/.test(code)
IsCode(code) ==
    /\ Len(code) = 3
    /\ \A i \in 1..3 : code[i] \in {UpperCase[c] : c \in DOMAIN UpperCase} \cup {"0", "1"}

\* the variant that compares the codes as they are written
isCodeDuplicate_CaseSensitive(list, code) == \E i \in 1..Len(list) : list[i].code = code

isCodeDuplicate(list, code) ==
    \E i \in 1..Len(list) : ToUpperCase(list[i].code) = ToUpperCase(code)

AlreadyExists(code) == "Code \"" \o Join(code) \o "\" already exists"

\* the message handleAddItem shows for an input it does not send, NULL if it sends it
addItemError(list, input) ==
    LET slashIndex == IndexOf(input, "/")
        code == ToUpperCase(Trim(SubSeq(input, 1, slashIndex - 1)))
        description == Trim(SubSeq(input, slashIndex + 1, Len(input)))
    IN  IF slashIndex = 0
        THEN "Use format: CODE / description (e.g., ADM / goulash)"
        ELSE IF code = <<>> \/ description = <<>>
        THEN "Both code and description are required"
        ELSE IF ~IsCode(code) THEN "Code must be 3 alphanumeric characters"
        ELSE IF isCodeDuplicate(list, code) THEN AlreadyExists(code)
        ELSE NULL

\* the user puts input into the add box and presses Enter
HandleAddItem(input) ==
    /\ ~freezerAdding
    /\ newItemInput' = input
    /\ freezerOps' = freezerOps + 1
    /\ freezerLast' = [op |-> "handleAddItem"]
    /\ IF Trim(input) = <<>>
       THEN UNCHANGED <<freezerCalls, freezerAdding, freezerMessage>>
       ELSE IF addItemError(items, input) # NULL
            THEN /\ freezerMessage' = addItemError(items, input)
                 /\ UNCHANGED <<freezerCalls, freezerAdding>>
            ELSE /\ freezerAdding' = TRUE
                 /\ freezerCalls' = freezerCalls @@ ((freezerOps + 1) :>
                        [kind |-> "create", phase |-> "sent",
                         code |-> ToUpperCase(Trim(SubSeq(input, 1, IndexOf(input, "/") - 1))),
                         description |->
                             Join(Trim(SubSeq(input, IndexOf(input, "/") + 1, Len(input))))])
                 /\ UNCHANGED freezerMessage
    /\ UNCHANGED <<freezerBackend, freezerEvents, items, freezerLoading, freezerError>>
    /\ UNCHANGED nonFreezerVars

\* setTimeout(() => setErrorMessage(null), 3000)
ToastExpires ==
    /\ freezerMessage # NULL
    /\ freezerMessage' = NULL
    /\ freezerLast' = [op |-> "toastExpires"]
    /\ UNCHANGED <<freezerBackend, freezerEvents, freezerCalls, items, freezerLoading,
                   freezerError, newItemInput, freezerAdding, freezerOps>>
    /\ UNCHANGED nonFreezerVars

\* the backend answers a call: the list or a refusal for a load; for a create the
\* new item, stamped and announced, when its code is free, a refusal when it is taken
FreezerServe(cid) ==
    /\ cid \in DOMAIN freezerCalls /\ freezerCalls[cid].phase = "sent"
    /\ LET call == freezerCalls[cid]
           item == [code |-> call.code, description |-> call.description, added_at |-> Now]
       IN  IF call.kind = "load"
           THEN /\ \E ok \in BOOLEAN :
                       freezerCalls' = [freezerCalls EXCEPT ![cid] =
                           Merge(call, [phase |-> "answered", ok |-> ok,
                                        resp |-> freezerBackend])]
                /\ UNCHANGED <<freezerBackend, freezerEvents>>
           ELSE IF \E i \in 1..Len(freezerBackend) : freezerBackend[i].code = call.code
                THEN /\ freezerCalls' = [freezerCalls EXCEPT ![cid] =
                            Merge(call, [phase |-> "answered", ok |-> FALSE,
                                         resp |-> "code taken"])]
                     /\ UNCHANGED <<freezerBackend, freezerEvents>>
                ELSE /\ freezerCalls' = [freezerCalls EXCEPT ![cid] =
                            Merge(call, [phase |-> "answered", ok |-> TRUE, resp |-> item])]
                     /\ freezerBackend' = Append(freezerBackend, item)
                     /\ freezerEvents' = Append(freezerEvents,
                            [type |-> "freezer_item_created", data |-> item])
    /\ freezerLast' = [op |-> "serve"]
    /\ UNCHANGED <<items, freezerLoading, freezerError, newItemInput, freezerAdding,
                   freezerMessage, freezerOps>>
    /\ UNCHANGED nonFreezerVars

\* the awaited response reaches fetchItems or handleAddItem
FreezerComplete(cid) ==
    /\ cid \in DOMAIN freezerCalls /\ freezerCalls[cid].phase = "answered"
    /\ freezerCalls' = RemoveKey(freezerCalls, cid)
    /\ IF freezerCalls[cid].kind = "load"
       THEN /\ items' = IF freezerCalls[cid].ok THEN freezerCalls[cid].resp ELSE items
            /\ freezerError' =
                   IF freezerCalls[cid].ok THEN freezerError ELSE "Failed to load freezer items"
            /\ freezerLoading' = FALSE
            /\ UNCHANGED <<newItemInput, freezerAdding, freezerMessage>>
       ELSE /\ freezerAdding' = FALSE
            /\ newItemInput' = IF freezerCalls[cid].ok THEN <<>> ELSE newItemInput
            /\ freezerMessage' =
                   IF freezerCalls[cid].ok THEN freezerMessage ELSE freezerCalls[cid].resp
            /\ UNCHANGED <<items, freezerLoading, freezerError>>
    /\ freezerLast' = [op |-> "complete"]
    /\ UNCHANGED <<freezerBackend, freezerEvents, freezerOps>>
    /\ UNCHANGED nonFreezerVars

\* es.addEventListener("freezer_item_created", ...)
freezerItemCreated(prev, data) ==
    IF \E i \in 1..Len(prev) : prev[i].code = data.code THEN prev ELSE Append(prev, data)

FreezerDeliver ==
    /\ freezerEvents # <<>>
    /\ items' = freezerItemCreated(items, Head(freezerEvents).data)
    /\ freezerEvents' = Tail(freezerEvents)
    /\ freezerLast' = [op |-> "deliver"]
    /\ UNCHANGED <<freezerBackend, freezerCalls, freezerLoading, freezerError,
                   newItemInput, freezerAdding, freezerMessage, freezerOps>>
    /\ UNCHANGED nonFreezerVars

NextFreezer ==
    \/ freezerOps < MaxFreezerOps /\ \E input \in FreezerInputs : HandleAddItem(input)
    \/ ToastExpires
    \/ \E cid \in DOMAIN freezerCalls : FreezerServe(cid)
    \/ \E cid \in DOMAIN freezerCalls : FreezerComplete(cid)
    \/ FreezerDeliver

SpecFreezer == Init /\ [][NextFreezer]_vars

(***************************************************************************)
(* The proxy routes under /api: one request at a time through one route    *)
(***************************************************************************)
\* a JSON string
Str(text) == [string |-> text]

\* await response.json() of a backend body: the value, or the exception
responseJson(body) ==
    CASE body = "{\"error\":\"no such todo\"}" ->
             [ok |-> TRUE, null |-> FALSE, value |-> [error |-> Str("no such todo")]]
      [] body = "{\"detail\":\"no such todo\"}" ->
             [ok |-> TRUE, null |-> FALSE, value |-> [detail |-> Str("no such todo")]]
      [] body = "{\"error\":{\"code\":7}}" ->
             [ok |-> TRUE, null |-> FALSE, value |-> [error |-> [object |-> "code: 7"]]]
      [] body = "null" -> [ok |-> TRUE, null |-> TRUE]
      [] OTHER -> [ok |-> FALSE]

\* NextResponse.json({ error: message }, { status })
ErrorResponse(status, message) == [status |-> status, body |-> [error |-> message]]

\* the catch block of a route
Unreachable(route) ==
    IF route = "events GET"
    THEN [status |-> 503, body |-> [sse |-> "data: {\"error\":\"Failed to connect to backend\"}"]]
    ELSE ErrorResponse(503, Str("Failed to connect to server"))

\* the message of the route for a backend error
FailedTo(route) ==
    CASE route = "memories GET" -> Str("Failed to fetch memories")
      [] route = "todos/[id] PATCH" -> Str("Failed to update todo")
      [] route = "clients/select POST" -> Str("Failed to select client")

\* data.error || message
errorOr(data, message) == IF "error" \in DOMAIN data THEN data.error ELSE message

\* what the route answers to a backend response that is not OK
NotOk(route, status, body) ==
    LET data == responseJson(body)
    IN  CASE route = "memories GET" -> ErrorResponse(status, FailedTo(route))
          [] route = "todos/[id] PATCH" ->
                 IF ~data.ok \/ data.null
                 THEN Unreachable(route)
                 ELSE ErrorResponse(status, errorOr(data.value, FailedTo(route)))
          [] route = "clients/select POST" ->
                 IF ~data.ok
                 THEN ErrorResponse(status, FailedTo(route))
                 ELSE IF data.null
                      THEN Unreachable(route)
                      ELSE ErrorResponse(status, errorOr(data.value, FailedTo(route)))
          [] route = "events GET" ->
                 [status |-> 502,
                  body |-> [sse |-> "data: {\"error\":\"Backend connection failed\"}"]]

\* what the route answers to a backend response that is OK
Ok(route, status, body) ==
    IF route = "events GET"
    THEN [status |-> 200, body |-> [sse |-> body]]
    ELSE IF responseJson(body).ok
         THEN [status |-> 200, body |-> [json |-> body]]
         ELSE Unreachable(route)

routeResponse(route, outcome) ==
    IF ~outcome.reached
    THEN Unreachable(route)
    ELSE IF outcome.status \in 200..299
         THEN Ok(route, outcome.status, outcome.body)
         ELSE NotOk(route, outcome.status, outcome.body)

\* a request reaches a route, which fetches the backend
ProxyFetch(route) ==
    /\ proxyCall = NULL
    /\ proxyCall' = route
    /\ UNCHANGED proxyAnswer
    /\ UNCHANGED nonProxyVars

\* the fetch ends and the route answers
ProxyReturn(outcome) ==
    /\ proxyCall # NULL
    /\ proxyAnswer' = [route |-> proxyCall, outcome |-> outcome,
                       response |-> routeResponse(proxyCall, outcome)]
    /\ proxyCall' = NULL
    /\ UNCHANGED nonProxyVars

NextProxy ==
    \/ \E route \in ProxyRoutes : ProxyFetch(route)
    \/ \E outcome \in BackendOutcomes : ProxyReturn(outcome)

SpecProxy == Init /\ [][NextProxy]_vars

(***************************************************************************)
(* useTextChat with the text transcript and the reset button               *)
(***************************************************************************)
\* const isConnected = sseConnected && sessionId !== null
isConnected == sseConnected /\ sessionId # NULL

ChatSend(call) ==
    /\ chatCalls' = chatCalls @@ ((chatOps + 1) :> Merge(call, [phase |-> "sent"]))
    /\ chatOps' = chatOps + 1

\* es.onopen
SseOpen ==
    /\ chatMounted /\ ~sseConnected
    /\ sseConnected' = TRUE
    /\ chatLast' = [op |-> "sseOpen"]
    /\ UNCHANGED <<chatMounted, sessionId, chatMessages, chatCalls, chatOps>>
    /\ UNCHANGED nonChatVars

\* es.onerror
SseError ==
    /\ chatMounted /\ sseConnected
    /\ sseConnected' = FALSE
    /\ chatLast' = [op |-> "sseError"]
    /\ UNCHANGED <<chatMounted, sessionId, chatMessages, chatCalls, chatOps>>
    /\ UNCHANGED nonChatVars

\* the text input is enabled only while isConnected; handleSubmit sends a text
\* that is not blank through sendMessage
HandleSubmit(text) ==
    /\ chatMounted /\ isConnected
    /\ text # ""
    /\ chatMessages' = Append(chatMessages, "user")
    /\ ChatSend([kind |-> "message", origin |-> "sendMessage", session_id |-> sessionId])
    /\ chatLast' = [op |-> "handleSubmit"]
    /\ UNCHANGED <<chatMounted, sessionId, sseConnected>>
    /\ UNCHANGED nonChatVars

\* the reset button is enabled only while isConnected; resetSession first closes
\* the current session
HandleReset ==
    /\ chatMounted /\ isConnected
    /\ ChatSend([kind |-> "closeSession", origin |-> "resetSession"])
    /\ chatLast' = [op |-> "handleReset"]
    /\ UNCHANGED <<chatMounted, sessionId, sseConnected, chatMessages>>
    /\ UNCHANGED nonChatVars

\* the cleanup of the effects: mounted = false, the event source is closed
ChatUnmount ==
    /\ chatMounted
    /\ chatMounted' = FALSE
    /\ chatLast' = [op |-> "unmount"]
    /\ UNCHANGED <<sessionId, sseConnected, chatMessages, chatCalls, chatOps>>
    /\ UNCHANGED nonChatVars

\* the chat server answers a call; it may refuse to create a session
ChatServe(cid) ==
    /\ cid \in DOMAIN chatCalls /\ chatCalls[cid].phase = "sent"
    /\ \E ok \in (IF chatCalls[cid].kind = "createSession" THEN BOOLEAN ELSE {TRUE}) :
           chatCalls' = [chatCalls EXCEPT ![cid] =
               Merge(chatCalls[cid],
                     [phase |-> "answered", ok |-> ok,
                      session_id |-> "session" \o ToString(cid)])]
    /\ chatLast' = [op |-> "serve"]
    /\ UNCHANGED <<chatMounted, sessionId, sseConnected, chatMessages, chatOps>>
    /\ UNCHANGED nonChatVars

\* the awaited response reaches init, resetSession or sendMessage
ChatComplete(cid) ==
    /\ cid \in DOMAIN chatCalls /\ chatCalls[cid].phase = "answered"
    /\ LET call == chatCalls[cid]
           rest == RemoveKey(chatCalls, cid)
       IN  CASE call.kind = "createSession" /\ call.origin = "init" ->
                  IF chatMounted /\ call.ok
                  THEN /\ sessionId' = call.session_id
                       /\ chatCalls' = rest
                       /\ UNCHANGED <<chatMessages, chatOps>>
                  ELSE IF chatMounted /\ chatOps < MaxChatOps
                       THEN \* retryTimeout = setTimeout(init, 5000)
                            /\ chatCalls' = rest @@ ((chatOps + 1) :>
                                   [kind |-> "createSession", origin |-> "init",
                                    phase |-> "sent"])
                            /\ chatOps' = chatOps + 1
                            /\ UNCHANGED <<sessionId, chatMessages>>
                       ELSE /\ chatCalls' = rest
                            /\ UNCHANGED <<sessionId, chatMessages, chatOps>>
             [] call.kind = "closeSession" ->
                  \* setMessages([]) and then createSession()
                  /\ chatMessages' = <<>>
                  /\ chatCalls' = rest @@ ((chatOps + 1) :>
                         [kind |-> "createSession", origin |-> "resetSession",
                          phase |-> "sent"])
                  /\ chatOps' = chatOps + 1
                  /\ UNCHANGED sessionId
             [] call.kind = "createSession" /\ call.origin = "resetSession" ->
                  /\ sessionId' = IF call.ok THEN call.session_id ELSE sessionId
                  /\ chatCalls' = rest
                  /\ UNCHANGED <<chatMessages, chatOps>>
             [] call.kind = "message" ->
                  /\ chatCalls' = rest
                  /\ UNCHANGED <<sessionId, chatMessages, chatOps>>
    /\ chatLast' = [op |-> "complete", kind |-> chatCalls[cid].kind]
    /\ UNCHANGED <<chatMounted, sseConnected>>
    /\ UNCHANGED nonChatVars

NextChat ==
    \/ SseOpen
    \/ SseError
    \/ chatOps < MaxChatOps /\ HandleSubmit("hi")
    \/ chatOps + 1 < MaxChatOps /\ HandleReset
    \/ ChatUnmount
    \/ \E cid \in DOMAIN chatCalls : ChatServe(cid)
    \/ \E cid \in DOMAIN chatCalls : ChatComplete(cid)

SpecChat == Init /\ [][NextChat]_vars

(***************************************************************************)
(* The SSE proxy /api/events: one response stream fed from the backend       *)
(***************************************************************************)
\* the chunks of a backend stream
Chunks == {"data: 1", "data: 2"}

\* the variant whose request listener does not abort the fetch
onRequestAbort_Unwired(aborted) == aborted

\* request.signal.addEventListener("abort", () => abortController.abort())
onRequestAbort(aborted) == TRUE

\* cancel() { abortController.abort() }
cancel(aborted) == TRUE

\* the backend writes a chunk to its stream
BackendEmits(c) ==
    /\ evBackend = "open" /\ Len(evEmitted) < MaxChunks
    /\ evPending' = Append(evPending, c)
    /\ evEmitted' = Append(evEmitted, c)
    /\ UNCHANGED <<evRequest, evStream, evAborted, evBackend, evForwarded>>
    /\ UNCHANGED nonEventsVars

\* the backend ends its stream
BackendEnds ==
    /\ evBackend = "open"
    /\ evBackend' = "ended"
    /\ UNCHANGED <<evRequest, evStream, evAborted, evPending, evEmitted, evForwarded>>
    /\ UNCHANGED nonEventsVars

\* reader.read() gives a chunk: controller.enqueue(value)
ReadChunk ==
    /\ evStream = "open" /\ evBackend # "aborted" /\ evPending # <<>>
    /\ evForwarded' = Append(evForwarded, Head(evPending))
    /\ evPending' = Tail(evPending)
    /\ UNCHANGED <<evRequest, evStream, evAborted, evBackend, evEmitted>>
    /\ UNCHANGED nonEventsVars

\* reader.read() gives done, or rejects after the abort: finally controller.close()
ReadEnds ==
    /\ evStream = "open"
    /\ \/ evBackend = "ended" /\ evPending = <<>>
       \/ evBackend = "aborted"
    /\ evStream' = "closed"
    /\ UNCHANGED <<evRequest, evAborted, evBackend, evPending, evEmitted, evForwarded>>
    /\ UNCHANGED nonEventsVars

\* the browser aborts the inbound request
RequestAborted ==
    /\ evRequest = "open"
    /\ evRequest' = "aborted"
    /\ evAborted' = onRequestAbort(evAborted)
    /\ UNCHANGED <<evStream, evBackend, evPending, evEmitted, evForwarded>>
    /\ UNCHANGED nonEventsVars

\* the consumer of the response cancels the stream
StreamCancelled ==
    /\ evStream = "open"
    /\ evStream' = "cancelled"
    /\ evAborted' = cancel(evAborted)
    /\ UNCHANGED <<evRequest, evBackend, evPending, evEmitted, evForwarded>>
    /\ UNCHANGED nonEventsVars

\* the aborted signal tears the backend-facing fetch down
FetchAborted ==
    /\ evAborted /\ evBackend = "open"
    /\ evBackend' = "aborted"
    /\ evPending' = <<>>
    /\ UNCHANGED <<evRequest, evStream, evAborted, evEmitted, evForwarded>>
    /\ UNCHANGED nonEventsVars

NextEvents ==
    \/ \E c \in Chunks : BackendEmits(c)
    \/ BackendEnds
    \/ ReadChunk
    \/ ReadEnds
    \/ RequestAborted
    \/ StreamCancelled
    \/ FetchAborted

\* the event loop runs every continuation that is ready
SpecEvents ==
    /\ Init /\ [][NextEvents]_vars
    /\ WF_vars(ReadChunk) /\ WF_vars(ReadEnds) /\ WF_vars(FetchAborted)

(***************************************************************************)
(* useTextChat: the stored session ids and the initialisation effect       *)
(***************************************************************************)
ToSet(seq) == {seq[i] : i \in DOMAIN seq}

\* getStoredSessions: the stored ids, or [] when localStorage throws
getStoredSessions(throws) == IF throws THEN <<>> ELSE storedSessions

\* storeSessionId: the id is pushed and written unless it is stored already; a
\* throwing write is ignored
storeSessionId(id, readThrows, writeThrows) ==
    LET sessions == getStoredSessions(readThrows)
    IN  IF id \in ToSet(sessions) \/ writeThrows
        THEN storedSessions
        ELSE Append(sessions, id)

\* closePreviousSessions, after Promise.all:
\* localStorage.setItem(STORAGE_KEY, JSON.stringify([])), outside any try
clearStored(writeThrows) ==
    IF writeThrows
    THEN [thrown |-> TRUE, stored |-> storedSessions]
    ELSE [thrown |-> FALSE, stored |-> <<>>]

\* init() runs, at mount or when retryTimeout fires: closePreviousSessions reads
\* the stored ids and sends a DELETE for each
InitRuns ==
    /\ initStep \in {"start", "waiting"}
    /\ \E readThrows \in BOOLEAN :
         LET sessions == getStoredSessions(readThrows)
         IN  /\ initSessions' = sessions
             /\ closeAsked' = closeAsked \cup ToSet(sessions)
    /\ initStep' = "closing"
    /\ UNCHANGED <<storedSessions, initMounted, initSessionId, sessionsCreated,
                   backendUp, chatMounts>>
    /\ UNCHANGED nonSessionVars

\* every closeSession has settled: the stored list is emptied and createSession
\* sends its POST, unless the write threw and init's promise is rejected
SessionsClosed ==
    /\ initStep = "closing"
    /\ \E writeThrows \in BOOLEAN :
         LET cleared == clearStored(writeThrows)
         IN  /\ storedSessions' = cleared.stored
             /\ initStep' = IF cleared.thrown THEN "rejected" ELSE "creating"
    /\ UNCHANGED <<initMounted, initSessionId, initSessions, closeAsked,
                   sessionsCreated, backendUp, chatMounts>>
    /\ UNCHANGED nonSessionVars

\* the POST /session is answered and init goes on after createSession
SessionAnswered ==
    /\ initStep = "creating"
    /\ IF backendUp
       THEN LET newSessionId == "s" \o ToString(sessionsCreated + 1)
            IN  /\ sessionsCreated' = sessionsCreated + 1
                /\ \E readThrows \in BOOLEAN, writeThrows \in BOOLEAN :
                     storedSessions' = storeSessionId(newSessionId, readThrows,
                                                      writeThrows)
                /\ IF initMounted
                   THEN initSessionId' = newSessionId /\ initStep' = "done"
                   ELSE initStep' = "ended" /\ UNCHANGED initSessionId
       ELSE /\ initStep' = IF initMounted THEN "waiting" ELSE "ended"
            /\ UNCHANGED <<storedSessions, initSessionId, sessionsCreated>>
    /\ UNCHANGED <<initMounted, initSessions, closeAsked, backendUp, chatMounts>>
    /\ UNCHANGED nonSessionVars

\* the cleanup of the effect: mounted = false; clearTimeout(retryTimeout)
SessionUnmount ==
    /\ initMounted
    /\ initMounted' = FALSE
    /\ initStep' = IF initStep \in {"start", "waiting"} THEN "ended" ELSE initStep
    /\ UNCHANGED <<storedSessions, initSessionId, initSessions, closeAsked,
                   sessionsCreated, backendUp, chatMounts>>
    /\ UNCHANGED nonSessionVars

\* the page is opened again once the earlier init has come to rest: the state
\* of the hook is fresh, the storage is what it was
SessionRemount ==
    /\ ~initMounted /\ initStep \in {"done", "ended", "rejected"}
    /\ chatMounts < MaxMounts
    /\ chatMounts' = chatMounts + 1
    /\ initMounted' = TRUE
    /\ initStep' = "start"
    /\ initSessionId' = NULL
    /\ initSessions' = <<>>
    /\ UNCHANGED <<storedSessions, closeAsked, sessionsCreated, backendUp>>
    /\ UNCHANGED nonSessionVars

\* the chat server starts, or stops, accepting session creations
BackendTurns ==
    /\ backendUp' = ~backendUp
    /\ UNCHANGED <<storedSessions, initMounted, initStep, initSessionId, initSessions,
                   closeAsked, sessionsCreated, chatMounts>>
    /\ UNCHANGED nonSessionVars

NextSession ==
    \/ InitRuns
    \/ SessionsClosed
    \/ SessionAnswered
    \/ SessionUnmount
    \/ SessionRemount
    \/ BackendTurns

\* timers fire and fetches are answered
SpecSession ==
    /\ Init /\ [][NextSession]_vars
    /\ WF_vars(InitRuns) /\ WF_vars(SessionsClosed) /\ WF_vars(SessionAnswered)

(***************************************************************************)
(* useTextChat: the EventSource and its bot_text_response listener         *)
(***************************************************************************)
\* if (data.session_id === sessionId || !sessionId)
accepts(data, closedOver) == data.session_id = closedOver \/ closedOver = NULL

\* the connection of the live EventSource is established: es.onopen
EsConnects ==
    /\ ~esOpen
    /\ esOpen' = TRUE
    /\ esConnected' = TRUE
    /\ UNCHANGED <<esSessionId, esQueue, botEmitted, botMessages>>
    /\ UNCHANGED nonListenerVars

\* the backend emits a bot_text_response: for the session of this hook, in
\* answer to a message the user could send, or for the session of another
\* client; it travels on the connections that are open
BotResponds(sid) ==
    /\ Len(botEmitted) < MaxResponses
    /\ sid # NULL
    /\ sid = initSessionId => esConnected
    /\ LET data == [session_id |-> sid, response |-> Len(botEmitted) + 1]
       IN  /\ botEmitted' = Append(botEmitted, data)
           /\ esQueue' = IF esOpen THEN Append(esQueue, data) ELSE esQueue
    /\ UNCHANGED <<esSessionId, esOpen, esConnected, botMessages>>
    /\ UNCHANGED nonListenerVars

\* the bot_text_response listener of the live EventSource
EsMessage ==
    /\ esQueue # <<>>
    /\ esQueue' = Tail(esQueue)
    /\ botMessages' = IF accepts(Head(esQueue), esSessionId)
                      THEN Append(botMessages, Head(esQueue))
                      ELSE botMessages
    /\ UNCHANGED <<esSessionId, esOpen, esConnected, botEmitted>>
    /\ UNCHANGED nonListenerVars

\* sessionId has changed and the effect on [sessionId] runs again: the cleanup
\* closes the EventSource, a new one is created and starts to connect
EffectReruns ==
    /\ esSessionId # initSessionId
    /\ esSessionId' = initSessionId
    /\ esOpen' = FALSE
    /\ esQueue' = <<>>
    /\ UNCHANGED <<esConnected, botEmitted, botMessages>>
    /\ UNCHANGED nonListenerVars

NextListener ==
    \/ InitRuns
    \/ SessionsClosed
    \/ SessionAnswered
    \/ BackendTurns
    \/ EsConnects
    \/ \E sid \in {initSessionId, "other"} : BotResponds(sid)
    \/ EsMessage
    \/ EffectReruns

SpecListener == Init /\ [][NextListener]_vars

(***************************************************************************)
(* useClientProfile: client selection, gating mode and listening state     *)
(***************************************************************************)
GatingModes == {"word", "toggle", "always-on"}

\* the client profiles the backend knows
ClientProfiles ==
    { [id |-> "c1", gating |-> "word"], [id |-> "c2", gating |-> "toggle"] }

\* the gating of the client with the given id
GatingOf(id) == (CHOOSE c \in ClientProfiles : c.id = id).gating

\* what GET /api/clients gives init: nothing, or the current client of the server
ClientsData == {[loaded |-> FALSE]} \cup [loaded : {TRUE}, current_client : {"c1"}]

\* what GET /api/gating/modes gives init: nothing, or the current mode
ModesData == {[loaded |-> FALSE]} \cup [loaded : {TRUE}, current : {"toggle"}]

\* the events other sessions and the assistant cause; the last has a payload
\* that does not parse
GatingEventsEmitted ==
    { [type |-> "client_selected", parses |-> TRUE,
       data |-> [client_id |-> "c2", gating |-> "toggle"]],
      [type |-> "client_selected", parses |-> FALSE, data |-> [raw |-> "{"]],
      [type |-> "gating_mode_changed", parses |-> TRUE, data |-> [mode |-> "word"]],
      [type |-> "assistant_listening_started", parses |-> TRUE, data |-> [raw |-> ""]] }

GatingCanCall == Cardinality(DOMAIN gatingCalls) < MaxCalls

GatingSend(call) ==
    /\ gatingCalls' = gatingCalls @@ ((gatingOps + 1) :> Merge(call, [phase |-> "sent"]))
    /\ gatingOps' = gatingOps + 1

\* the variant of the guard of startListening and stopListening that lets
\* every mode through
toggleMode_Any(mode) == TRUE

\* if (currentGatingMode !== "toggle") return
toggleMode(mode) == mode = "toggle"

\* selectClient(clientId), up to the await
SelectClient(clientId) ==
    /\ GatingCanCall
    /\ GatingSend([kind |-> "select", origin |-> "selectClient", client_id |-> clientId])
    /\ gatingLast' = [op |-> "selectClient"]
    /\ UNCHANGED <<selectedClientId, currentGatingMode, isListening, gatingEvents,
                   gatingEmitted>>
    /\ UNCHANGED nonGatingVars

\* setGatingMode(mode), up to the await
SetGatingMode(mode) ==
    /\ GatingCanCall
    /\ GatingSend([kind |-> "mode", origin |-> "setGatingMode", mode |-> mode])
    /\ gatingLast' = [op |-> "setGatingMode"]
    /\ UNCHANGED <<selectedClientId, currentGatingMode, isListening, gatingEvents,
                   gatingEmitted>>
    /\ UNCHANGED nonGatingVars

\* startListening() or stopListening(), up to the await; outside toggle mode
\* the call returns at once
Listening(kind) ==
    /\ GatingCanCall
    /\ IF toggleMode(currentGatingMode)
       THEN GatingSend([kind |-> kind, origin |-> kind \o "Listening"])
       ELSE gatingOps' = gatingOps + 1 /\ UNCHANGED gatingCalls
    /\ gatingLast' = [op |-> kind \o "Listening"]
    /\ UNCHANGED <<selectedClientId, currentGatingMode, isListening, gatingEvents,
                   gatingEmitted>>
    /\ UNCHANGED nonGatingVars

\* toggleListening()
ToggleListening == IF isListening THEN Listening("stop") ELSE Listening("start")

\* the event a request causes when the backend carries it out
GatingEcho(call) ==
    CASE call.kind = "select" ->
            [type |-> "client_selected", parses |-> TRUE,
             data |-> [client_id |-> call.client_id, gating |-> GatingOf(call.client_id)]]
      [] call.kind = "mode" ->
            [type |-> "gating_mode_changed", parses |-> TRUE, data |-> [mode |-> call.mode]]
      [] call.kind = "start" ->
            [type |-> "assistant_listening_started", parses |-> TRUE, data |-> [raw |-> ""]]
      [] call.kind = "stop" ->
            [type |-> "assistant_listening_stopped", parses |-> TRUE, data |-> [raw |-> ""]]

\* the backend answers a request of the user: it carries it out and emits the
\* event, or it refuses, or it cannot be reached
GatingServe(cid) ==
    /\ cid \in DOMAIN gatingCalls
    /\ gatingCalls[cid].phase = "sent" /\ gatingCalls[cid].kind # "load"
    /\ \E ok \in BOOLEAN :
         /\ gatingCalls' = [gatingCalls EXCEPT ![cid] =
                               Merge(gatingCalls[cid], [phase |-> "answered", ok |-> ok])]
         /\ gatingEvents' = IF ok THEN Append(gatingEvents, GatingEcho(gatingCalls[cid]))
                            ELSE gatingEvents
    /\ gatingLast' = [op |-> "serve"]
    /\ UNCHANGED <<selectedClientId, currentGatingMode, isListening, gatingOps,
                   gatingEmitted>>
    /\ UNCHANGED nonGatingVars

\* selectClient after the await
selectClientDone(call) ==
    IF call.ok
    THEN /\ selectedClientId' = call.client_id
         /\ currentGatingMode' = GatingOf(call.client_id)
         /\ isListening' = FALSE
    ELSE UNCHANGED <<selectedClientId, currentGatingMode, isListening>>

\* selectClient, setGatingMode, startListening or stopListening after the await
GatingComplete(cid) ==
    /\ cid \in DOMAIN gatingCalls
    /\ gatingCalls[cid].phase = "answered"
    /\ gatingCalls' = RemoveKey(gatingCalls, cid)
    /\ IF gatingCalls[cid].kind = "select"
       THEN selectClientDone(gatingCalls[cid])
       ELSE UNCHANGED <<selectedClientId, currentGatingMode, isListening>>
    /\ gatingLast' = [op |-> "complete", kind |-> gatingCalls[cid].kind,
                      ok |-> gatingCalls[cid].ok]
    /\ UNCHANGED <<gatingEvents, gatingOps, gatingEmitted>>
    /\ UNCHANGED nonGatingVars

\* init after Promise.all, with no valid stored client: the current client of
\* the server and the current mode are taken over
InitLoaded(clientsData, modesData) ==
    /\ 0 \in DOMAIN gatingCalls
    /\ gatingCalls' = RemoveKey(gatingCalls, 0)
    /\ LET fromClient ==
               IF clientsData.loaded /\ clientsData.current_client # NULL
               THEN GatingOf(clientsData.current_client)
               ELSE currentGatingMode
       IN  /\ selectedClientId' =
                  IF clientsData.loaded /\ clientsData.current_client # NULL
                  THEN clientsData.current_client
                  ELSE selectedClientId
           \* setCurrentGatingMode((prev) => prev || modesData.current)
           /\ currentGatingMode' =
                  IF modesData.loaded /\ fromClient = NULL
                  THEN modesData.current
                  ELSE fromClient
    /\ gatingLast' = [op |-> "initLoaded"]
    /\ UNCHANGED <<isListening, gatingEvents, gatingOps, gatingEmitted>>
    /\ UNCHANGED nonGatingVars

\* another session, or the assistant, causes an event
GatingEmit(e) ==
    /\ gatingEmitted < MaxGatingEvents
    /\ gatingEmitted' = gatingEmitted + 1
    /\ gatingEvents' = Append(gatingEvents, e)
    /\ gatingLast' = [op |-> "emit"]
    /\ UNCHANGED <<selectedClientId, currentGatingMode, isListening, gatingCalls,
                   gatingOps>>
    /\ UNCHANGED nonGatingVars

\* the SSE listeners of useClientProfile
onGatingEvent(e) ==
    CASE ~e.parses ->
            UNCHANGED <<selectedClientId, currentGatingMode, isListening>>
      [] e.type = "client_selected" ->
            /\ selectedClientId' = e.data.client_id
            /\ currentGatingMode' = e.data.gating
            /\ isListening' = FALSE
      [] e.type = "gating_mode_changed" ->
            /\ currentGatingMode' = e.data.mode
            /\ isListening' = IF e.data.mode # "toggle" THEN FALSE ELSE isListening
            /\ UNCHANGED selectedClientId
      [] e.type = "assistant_listening_started" ->
            /\ isListening' = TRUE
            /\ UNCHANGED <<selectedClientId, currentGatingMode>>
      [] e.type = "assistant_listening_stopped" ->
            /\ isListening' = FALSE
            /\ UNCHANGED <<selectedClientId, currentGatingMode>>

\* the oldest undelivered event reaches its listener
GatingDeliver ==
    /\ gatingEvents # <<>>
    /\ gatingEvents' = Tail(gatingEvents)
    /\ onGatingEvent(Head(gatingEvents))
    /\ gatingLast' = [op |-> "deliver", event |-> Head(gatingEvents),
                      wasListening |-> isListening]
    /\ UNCHANGED <<gatingCalls, gatingOps, gatingEmitted>>
    /\ UNCHANGED nonGatingVars

NextGating ==
    \/ gatingOps < MaxGatingOps /\ \E c \in ClientProfiles : SelectClient(c.id)
    \/ gatingOps < MaxGatingOps /\ \E mode \in GatingModes : SetGatingMode(mode)
    \/ gatingOps < MaxGatingOps /\ \E kind \in {"start", "stop"} : Listening(kind)
    \/ gatingOps < MaxGatingOps /\ ToggleListening
    \/ \E cid \in DOMAIN gatingCalls : GatingServe(cid)
    \/ \E cid \in DOMAIN gatingCalls : GatingComplete(cid)
    \/ \E clientsData \in ClientsData, modesData \in ModesData :
           InitLoaded(clientsData, modesData)
    \/ \E e \in GatingEventsEmitted : GatingEmit(e)
    \/ GatingDeliver

SpecGating == Init /\ [][NextGating]_vars

(***************************************************************************)
(* useVersion: the versions last seen and the new-version notification     *)
(***************************************************************************)
\* a version string, as its characters
Version(text) == [known |-> TRUE, text |-> text]

\* the versions the client and the server report in a run
VersionTexts ==
    { << "1", ".", "9" >>, << "1", ".", "1", "0" >>, << "1", ".", "9", ".", "0" >>,
      << "2" >> }

\* what the pair of fetches of one side ends in: a version, a response that is
\* not OK, or an exception
FetchOutcomes ==
    {[thrown |-> TRUE], [thrown |-> FALSE, ok |-> FALSE]}
    \cup {[thrown |-> FALSE, ok |-> TRUE, version |-> Version(t)] : t \in VersionTexts}

DigitValue(c) ==
    CASE c = "0" -> 0 [] c = "1" -> 1 [] c = "2" -> 2 [] c = "9" -> 9

\* Number(part) || 0 for a part made of digits; Number("") is 0
RECURSIVE ToNumber(_)
ToNumber(part) ==
    IF part = <<>> THEN 0
    ELSE 10 * ToNumber(SubSeq(part, 1, Len(part) - 1)) + DigitValue(part[Len(part)])

\* v.split(".").map(Number)
Parts(text) == [i \in 1..Len(Split(text, ".")) |-> ToNumber(Split(text, ".")[i])]

\* parts[i] || 0
PartAt(parts, i) == IF i \in DOMAIN parts THEN parts[i] ELSE 0

Max(a, b) == IF a >= b THEN a ELSE b

\* the loop of isNewerVersion from index i on
RECURSIVE NewerFrom(_, _, _)
NewerFrom(parts1, parts2, i) ==
    IF i > Max(Len(parts1), Len(parts2)) THEN FALSE
    ELSE IF PartAt(parts1, i) > PartAt(parts2, i) THEN TRUE
    ELSE IF PartAt(parts1, i) < PartAt(parts2, i) THEN FALSE
    ELSE NewerFrom(parts1, parts2, i + 1)

\* isNewerVersion(v1, v2)
isNewerVersion(v1, v2) ==
    IF ~v1.known \/ ~v2.known THEN FALSE
    ELSE NewerFrom(Parts(v1.text), Parts(v2.text), 1)

\* the version a pair of fetches gave, null when the response was not OK
Fetched(outcome) == IF outcome.ok THEN outcome.version ELSE NoVersion

\* the notification pushed for a side when its current version is newer than
\* the stored one
Notify(list, type, current, seen) ==
    IF current.known /\ isNewerVersion(current, seen)
    THEN Append(list, [type |-> type, version |-> current, previousVersion |-> seen])
    ELSE list

\* fetchVersions once the client version and its history are fetched
ClientFetched(outcome) ==
    /\ versionStep = "client"
    /\ IF outcome.thrown
       THEN \* catch and finally
            /\ versionStep' = "done"
            /\ UNCHANGED <<clientVersion, newVersionsList>>
       ELSE /\ clientVersion' = Fetched(outcome)
            /\ newVersionsList' = Notify(newVersionsList, "client", Fetched(outcome),
                                         stored.clientVersion)
            /\ versionStep' = "server"
    /\ versionLast' = [op |-> "clientFetched"]
    /\ UNCHANGED <<versionStorage, stored, serverVersion, newVersions, versionVisits>>
    /\ UNCHANGED nonVersionVars

\* fetchVersions once the server version and its history are fetched, to its end
ServerFetched(outcome) ==
    /\ versionStep = "server"
    /\ IF outcome.thrown
       THEN /\ UNCHANGED <<serverVersion, newVersionsList, newVersions, versionStorage>>
       ELSE LET list == Notify(newVersionsList, "server", Fetched(outcome),
                               stored.serverVersion)
            IN  /\ serverVersion' = Fetched(outcome)
                /\ newVersionsList' = list
                /\ IF Len(list) > 0
                   THEN newVersions' = list /\ UNCHANGED versionStorage
                   ELSE \* saveVersions(currentClientVersion, currentServerVersion)
                        /\ versionStorage' = [clientVersion |-> clientVersion,
                                              serverVersion |-> Fetched(outcome)]
                        /\ UNCHANGED newVersions
    /\ versionStep' = "done"
    /\ versionLast' = [op |-> "serverFetched"]
    /\ UNCHANGED <<stored, clientVersion, versionVisits>>
    /\ UNCHANGED nonVersionVars

\* dismissNewVersions, offered while a notification is shown
DismissNewVersions ==
    /\ newVersions # <<>>
    /\ newVersions' = <<>>
    /\ versionStorage' = [clientVersion |-> clientVersion, serverVersion |-> serverVersion]
    /\ versionLast' = [op |-> "dismiss"]
    /\ UNCHANGED <<stored, clientVersion, serverVersion, newVersionsList, versionStep,
                   versionVisits>>
    /\ UNCHANGED nonVersionVars

\* the page is opened again: the hook starts afresh and reads the storage
VersionRevisit ==
    /\ versionStep = "done" /\ versionVisits < MaxVisits
    /\ versionVisits' = versionVisits + 1
    /\ stored' = versionStorage
    /\ clientVersion' = NoVersion
    /\ serverVersion' = NoVersion
    /\ newVersionsList' = <<>>
    /\ newVersions' = <<>>
    /\ versionStep' = "client"
    /\ versionLast' = [op |-> "mount"]
    /\ UNCHANGED versionStorage
    /\ UNCHANGED nonVersionVars

NextVersion ==
    \/ \E outcome \in FetchOutcomes : ClientFetched(outcome)
    \/ \E outcome \in FetchOutcomes : ServerFetched(outcome)
    \/ DismissNewVersions
    \/ VersionRevisit

SpecVersion == Init /\ [][NextVersion]_vars

(***************************************************************************)
(* Properties of the stock store                                           *)
(***************************************************************************)
RecordsOf(coll) == {coll[i] : i \in 1..Len(coll)}

IdsOf(coll) == {coll[i].id : i \in 1..Len(coll)}

\* no REST call of the store is in flight and every emitted event was delivered
Quiescent == DOMAIN calls = {} /\ events = <<>>

\* the stock_created event announcing record id has been delivered
EchoDelivered(id) ==
    \A i \in 1..Len(events) :
        ~(events[i].type = "stock_created" /\ events[i].data.id = id)

\* the response of the create() call that made record id has been delivered
ResponseArrived(id) ==
    \A cid \in DOMAIN calls :
        ~(calls[cid].kind = "create" /\ calls[cid].phase = "answered"
          /\ calls[cid].ok /\ calls[cid].resp.id = id)

\* C1: when the later of the two, the response of a create() call and the
\* stock_created event of the record it made, has just arrived (in either order,
\* a load possibly completing in between), the collection holds exactly one
\* record with that key.
C1_ExactlyOneAfterCreate ==
    \A id \in created :
        ( /\ last.op \in {"addOk", "deliver"} /\ last.id = id
          /\ EchoDelivered(id) /\ ResponseArrived(id)
          /\ Has(backend, id) )
        => Count(stock, id) = 1

\* C2: the collection never holds two records with the same identity key.
C2_AtMostOnePerKey ==
    \A id \in IdsOf(stock) : Count(stock, id) = 1

\* a stock_created event reached the listener while its key was already there
C2_Witness ==
    /\ last.op = "deliver" /\ last.type = "stock_created" /\ last.present
    /\ Has(stock, last.id)

\* C3: when no REST call is in flight, no event is undelivered and the last load
\* did not fail, the local collection equals the backend's collection, record
\* by record.
C3_ConvergesToBackend ==
    (Quiescent /\ error = NULL) =>
        /\ RecordsOf(stock) = RecordsOf(backend)
        /\ Len(stock) = Len(backend)


EventTypes == {"stock_created", "stock_updated", "stock_deleted"}

\* delivering e twice leaves the collection as delivering it once
Idempotent(e) == onEvent(onEvent(stock, e), e) = onEvent(stock, e)

\* C4: every listener is idempotent on the current collection, for the events
\* in flight and for events carrying any record the backend or the store holds;
\* and right after a stock_deleted event the collection has no record with
\* that key.
C4_HandlersIdempotent ==
    /\ \A i \in 1..Len(events) : Idempotent(events[i])
    /\ \A r \in RecordsOf(backend) \cup RecordsOf(stock) :
          \A t \in EventTypes : Idempotent([type |-> t, data |-> r])
    /\ (last.op = "deliver" /\ last.type = "stock_deleted") => ~Has(stock, last.id)

\* a stock_deleted event arrived for a key that a local delete had already removed
C4_Witness ==
    /\ last.op = "deliver" /\ last.type = "stock_deleted" /\ ~last.present
    /\ \E k \in 1..Len(undoStack) :
          undoStack[k].type = "delete" /\ undoStack[k].stock.id = last.id

\* the call cid completes in this step
Completed(cid) == cid \in DOMAIN calls /\ cid \notin DOMAIN calls'

UpdateOk(cid) == Completed(cid) /\ calls[cid].kind = "update" /\ calls[cid].ok

OnlyFieldsChanged(old, new, id, fields) ==
    /\ Len(new) = Len(old)
    /\ \A i \in 1..Len(old) :
          IF old[i].id = id
          THEN /\ DOMAIN new[i] = DOMAIN old[i]
               /\ \A f \in DOMAIN old[i] \ fields : new[i][f] = old[i][f]
          ELSE new[i] = old[i]

\* C5 (as claimed): a successful update(key, {field: v}) changes only `field` of
\* the record with that key; every other attribute and every other record is
\* the same after the call as before it.
C5_OnlyFieldChanges ==
    [][\A cid \in DOMAIN calls :
          UpdateOk(cid) =>
              OnlyFieldsChanged(stock, stock', calls[cid].id, DOMAIN calls[cid].body)]_vars

ResponseMerged(old, new, id, body, resp) ==
    /\ Len(new) = Len(old)
    /\ \A i \in 1..Len(old) :
          IF old[i].id = id
          THEN /\ DOMAIN old[i] \subseteq DOMAIN new[i]
               /\ \A f \in DOMAIN body : new[i][f] = body[f]
               /\ \A f \in DOMAIN new[i] :
                     new[i][f] = IF f \in DOMAIN resp THEN resp[f] ELSE old[i][f]
          ELSE new[i] = old[i]

\* C5 (amended): a successful update(key, {field: v}) sets `field` of the record
\* with that key to v and leaves every other record as it was; another
\* attribute of that record changes only to the value the response carries for
\* it, and attributes the response does not carry keep their value.
C5_ResponseMergedIntoRecord ==
    [][\A cid \in DOMAIN calls :
          UpdateOk(cid) =>
              ResponseMerged(stock, stock', calls[cid].id, calls[cid].body,
                             calls[cid].resp)]_vars

\* an update just completed on a record the collection holds, next to another record
C5_Witness ==
    /\ last.op = "updateOk" /\ Has(stock, last.id)
    /\ Len(stock) >= 2

LoadFailed(cid) == Completed(cid) /\ calls[cid].kind = "load" /\ ~calls[cid].ok

\* C8: a failed load leaves the collection as it was, sets the error flag and
\* puts the loading flag back to false.
C8_FailedLoadKeepsCollection ==
    [][\A cid \in DOMAIN calls :
          LoadFailed(cid) =>
              /\ stock' = stock
              /\ error' # NULL
              /\ isLoading' = FALSE]_vars

\* a refresh failed while a loaded collection was on screen
C8_Witness ==
    /\ last.op = "loadFail" /\ Len(stock) > 0
    /\ error # NULL /\ ~isLoading

DeleteDone(cid) == Completed(cid) /\ calls[cid].origin = "handleDelete"

\* C9: when handleDelete's request succeeds the record is gone from the
\* collection at once and the newest undo entry is the snapshot taken when
\* delete was invoked; when it fails neither the collection nor the undo stack
\* changes.
C9_DeleteRemovesAndSnapshots ==
    [][\A cid \in DOMAIN calls :
          DeleteDone(cid) =>
              IF calls[cid].ok
              THEN /\ ~Has(stock', calls[cid].id)
                   /\ Len(undoStack') = Len(undoStack) + 1
                   /\ undoStack'[Len(undoStack')] =
                          [type |-> "delete", stock |-> calls[cid].stockItem]
              ELSE /\ stock' = stock
                   /\ undoStack' = undoStack]_vars

\* the delete completed while its stock_deleted event was still undelivered
C9_Witness ==
    /\ last.op = "deleteOk" /\ ~Has(stock, last.id)
    /\ \E i \in 1..Len(events) :
          events[i].type = "stock_deleted" /\ events[i].data.id = last.id
    /\ Len(undoStack) > 0 /\ undoStack[Len(undoStack)].type = "delete"
    /\ undoStack[Len(undoStack)].stock.id = last.id

UndoOk(cid) == Completed(cid) /\ calls[cid].origin = "handleUndo" /\ calls[cid].ok

\* the stack without its most recent entry equal to operation
Without(stack, operation) ==
    IF \E k \in 1..Len(stack) : stack[k] = operation
    THEN LET k == CHOOSE k \in 1..Len(stack) :
                     stack[k] = operation /\ \A j \in (k + 1)..Len(stack) : stack[j] # operation
         IN SubSeq(stack, 1, k - 1) \o SubSeq(stack, k + 1, Len(stack))
    ELSE stack

\* C10: when an undo succeeds, the entry it undid, and no other, leaves the
\* stack, whatever was pushed while the undo was in flight.
C10_UndoRemovesUndoneEntry ==
    [][\A cid \in DOMAIN calls :
          UndoOk(cid) =>
              \/ undoStack' = Without(undoStack, calls[cid].operation)
              \/ undoStack' = resolvePending(Without(undoStack, calls[cid].operation),
                                             stock')]_vars

UndoFailed(cid) == Completed(cid) /\ calls[cid].origin = "handleUndo" /\ ~calls[cid].ok

\* C11: when the inverse request of an undo fails, the undo stack is left as it
\* was and isUndoing returns to false; the stack gets shorter only in a step
\* where an undo's request succeeded.
C11_FailedUndoKeepsEntry ==
    [][/\ \A cid \in DOMAIN calls :
             UndoFailed(cid) => (undoStack' = undoStack /\ isUndoing' = FALSE)
       /\ Len(undoStack') < Len(undoStack) => \E cid \in DOMAIN calls : UndoOk(cid)]_vars

\* an undo just failed and its entry is still on top of the stack
C11_Witness ==
    /\ last.op = "undoFail" /\ ~isUndoing
    /\ Len(undoStack) > 0

\* the undo requests in flight
UndoCalls(cs) == {cid \in DOMAIN cs : cs[cid].origin = "handleUndo"}

UndoSent(type) ==
    /\ last'.op = "handleUndo"
    /\ undoStack[Len(undoStack)].type = type

\* C23: the undo of an add sends a delete for the record that the add created:
\* the id it names is one the backend gave to a record created through this
\* table, never the id of a record that was there before and never a temporary
\* id, whether or not the stock_created event has arrived.
C23_UndoAddDeletesCreated ==
    [][UndoSent("add") => calls'[ops + 1].id \in created]_vars

\* C24: the entry an edit leaves on the stack holds, as oldValue, the value the
\* edited field had in the record when the edit was saved, and the undo of the
\* entry sends an update of that record that sets that field, and no other, to
\* oldValue: the field returns to its value before the edit.
C24_UndoEditRestoresField ==
    [][/\ last'.op = "saveEditing" =>
             LET call == calls'[ops + 1]
             IN  Has(stock, call.id) =>
                     call.operation.oldValue = Find(stock, call.id)[call.operation.field]
       /\ UndoSent("edit") =>
             LET operation == undoStack[Len(undoStack)]
             IN  /\ calls'[ops + 1].id = operation.stockId
                 /\ calls'[ops + 1].body = [f \in {operation.field} |-> operation.oldValue]]_vars

\* no call is in flight and every event has been delivered
Quiet == DOMAIN calls = {} /\ events = <<>>

\* C25: whenever nothing is in flight and the table shows what the backend
\* holds, the entry on top of the stack can be undone: an add or edit entry
\* names a record the backend holds, so that the backend accepts the inverse
\* request and repeated undos, each awaited, go on until the stack is empty.
C25_TopEntryUndoable ==
    (Quiet /\ stock = backend /\ error = NULL /\ Len(undoStack) > 0) =>
        LET operation == undoStack[Len(undoStack)]
        IN  operation.type \in {"add", "edit"} => Has(backend, operation.stockId)

(***************************************************************************)
(* Properties of the freezer table                                         *)
(***************************************************************************)
\* the code part of a text: what stands before the first '/', trimmed
TypedCode(input) == Trim(SubSeq(input, 1, IndexOf(input, "/") - 1))

\* the text names an item: a code of three characters and a description
NamesItem(input) ==
    /\ IndexOf(input, "/") > 0
    /\ Len(TypedCode(input)) = 3
    /\ Trim(SubSeq(input, IndexOf(input, "/") + 1, Len(input))) # <<>>

\* the code of the text is the code of an item of the collection, whatever the case
CodeTaken(input) ==
    /\ IndexOf(input, "/") > 0
    /\ \E i \in 1..Len(items) : ToUpperCase(items[i].code) = ToUpperCase(TypedCode(input))

\* C16: adding a freezer item whose code, compared case-insensitively, is the code
\* of an item of the collection shows the duplicate-code error, sends no request
\* and leaves the collection and every record of it as they were.
C16_DuplicateCodeRejected ==
    [][(freezerLast'.op = "handleAddItem" /\ CodeTaken(newItemInput')) =>
          /\ NamesItem(newItemInput') =>
                 freezerMessage' = AlreadyExists(ToUpperCase(TypedCode(newItemInput')))
          /\ freezerCalls' = freezerCalls
          /\ items' = items
          /\ freezerBackend' = freezerBackend]_vars

\* the item ABD was added, its echo arrived, and ABD is typed a second time
C16_Witness ==
    /\ freezerLast.op = "handleAddItem"
    /\ newItemInput = << "a", "b", "d", "/", "x" >>
    /\ freezerMessage = AlreadyExists(<< "A", "B", "D" >>)
    /\ \E i \in 1..Len(items) : items[i].code = << "A", "B", "D" >>
    /\ freezerCalls = << >>

(***************************************************************************)
(* Properties of the proxy routes                                          *)
(***************************************************************************)
\* the body is { error: <a string> } and nothing else
ErrorShape(body) == DOMAIN body = {"error"} /\ DOMAIN body.error = {"string"}

\* C18: every proxy route answers a backend response that is not OK with the
\* backend's own status code and a body { error: string }, whatever the backend's
\* body was, and answers 503 only when the backend could not be reached.
C18_BackendErrorsNormalized ==
    proxyAnswer.route # NULL =>
        /\ (proxyAnswer.outcome.reached /\ proxyAnswer.outcome.status \notin 200..299) =>
               /\ proxyAnswer.response.status = proxyAnswer.outcome.status
               /\ ErrorShape(proxyAnswer.response.body)
        /\ proxyAnswer.response.status = 503 => ~proxyAnswer.outcome.reached

(***************************************************************************)
(* Properties of the text chat                                             *)
(***************************************************************************)
\* C19: no REST operation offered to the user is blocked by the state of the
\* event stream: with a chat session at hand, a message can be sent and the
\* session can be reset whether the SSE connection is open or not.
C19_RestNotBlockedBySse ==
    (chatMounted /\ sessionId # NULL) =>
        (ENABLED HandleSubmit("hi") /\ ENABLED HandleReset)

\* C20: once the component has unmounted, the completion of a REST call it left
\* in flight updates nothing of the store.
C20_NoUpdateAfterUnmount ==
    [][~chatMounted => UNCHANGED <<sessionId, sseConnected, chatMessages>>]_vars

(***************************************************************************)
(* Properties of the SSE proxy                                             *)
(***************************************************************************)
IsPrefix(a, b) == Len(a) <= Len(b) /\ SubSeq(b, 1, Len(a)) = a

\* C21: an aborted request or a cancelled response stream aborts the backend-facing
\* fetch, so that eventually no backend stream stays open for it; until then the
\* chunks read are forwarded unchanged and in order, none skipped; and the
\* response stream closes once the backend stream has ended.
C21_AbortReachesBackend ==
    /\ [](IsPrefix(evForwarded, evEmitted)
          /\ (~evAborted => evForwarded \o evPending = evEmitted))
    /\ ((evRequest = "aborted" \/ evStream = "cancelled") ~> evBackend # "open")
    /\ (evBackend = "ended" ~> evStream # "open")

C21_Witness ==
    /\ evRequest = "aborted" /\ evBackend = "aborted"
    /\ evForwarded = << "data: 1" >> /\ evEmitted = << "data: 1", "data: 2" >>
    /\ evStream = "closed"

(***************************************************************************)
(* Properties of the chat session initialisation                           *)
(***************************************************************************)
\* C22: a failing localStorage read or write is ignored: it never ends the
\* session initialisation with an error, and an initialisation that has run
\* either goes on to create a session or was stopped by the unmount.
C22_StorageFailureIgnored == initStep # "rejected"

\* C27: while the component stays mounted the initialisation is retried, so that
\* a backend that comes to accept session creations leads to a session id;
\* every id in the storage when an attempt starts has been asked to be closed
\* before that attempt creates a session; once unmounted, no retry is armed and
\* the session id is not set.
C27_InitRetriesUntilSession ==
    /\ (<>[](backendUp /\ initMounted)) => <>(initSessionId # NULL)
    /\ [](initStep = "closing" => ToSet(storedSessions) \subseteq closeAsked)
    /\ [][(~initMounted /\ ~initMounted') =>
             (initSessionId' = initSessionId /\ initStep' # "waiting")]_vars

(***************************************************************************)
(* Properties of the bot response listener                                 *)
(***************************************************************************)
\* the events of a sequence that belong to the session
OfSession(seq, sid) == SelectSeq(seq, LAMBDA data : data.session_id = sid)

\* C28: with a session id set, no response of another session is appended; and
\* once the listener has caught up, the responses of the hook's session stand
\* in the message list exactly as the backend emitted them, each once and in
\* order.
C28_OwnResponsesExactlyOnce ==
    /\ [][(initSessionId # NULL /\ botMessages' # botMessages) =>
             botMessages'[Len(botMessages')].session_id = initSessionId]_vars
    /\ []((initSessionId # NULL /\ esSessionId = initSessionId /\ esQueue = <<>>) =>
             OfSession(botMessages, initSessionId) = OfSession(botEmitted, initSessionId))

(***************************************************************************)
(* Properties of the gating controls                                       *)
(***************************************************************************)
\* the requests of the given kinds in flight
GatingCallsOf(cs, kinds) == {cid \in DOMAIN cs : cs[cid].kind \in kinds}

\* C29: sending and completing a setGatingMode, startListening or
\* stopListening request changes neither currentGatingMode nor isListening,
\* whatever the answer: the two change only in a step that applies an event, a
\* client selection or the initial load; a start or stop request is sent only
\* in toggle mode; and isListening is false right after a client_selected
\* event, or a gating_mode_changed event to a mode other than toggle, is applied.
C29_GatingChangesOnlyByEvents ==
    [][/\ (currentGatingMode' # currentGatingMode \/ isListening' # isListening) =>
             \/ gatingLast'.op \in {"deliver", "initLoaded"}
             \/ gatingLast'.op = "complete" /\ gatingLast'.kind = "select"
       /\ (GatingCallsOf(gatingCalls', {"start", "stop"})
             \ GatingCallsOf(gatingCalls, {"start", "stop"}) # {}) =>
             currentGatingMode = "toggle"
       /\ (gatingLast'.op = "deliver" /\ gatingLast'.event.parses) =>
             /\ gatingLast'.event.type = "client_selected" => ~isListening'
             /\ (gatingLast'.event.type = "gating_mode_changed"
                   /\ gatingLast'.event.data.mode # "toggle") => ~isListening']_vars

\* listening in toggle mode stopped by a change of mode, after a stop request
\* of the user had failed
C29_Witness ==
    /\ gatingLast.op = "deliver" /\ gatingLast.event.type = "gating_mode_changed"
    /\ gatingLast.wasListening /\ ~isListening
    /\ currentGatingMode = "word"
    /\ gatingOps >= 1

(***************************************************************************)
(* Properties of the version check                                         *)
(***************************************************************************)
\* strictly greater, part by part as numbers, a missing part counting as 0
Greater(parts1, parts2) ==
    \E i \in 1..Max(Len(parts1), Len(parts2)) :
        /\ PartAt(parts1, i) > PartAt(parts2, i)
        /\ \A j \in 1..(i - 1) : PartAt(parts1, j) = PartAt(parts2, j)

\* the current version of a side was fetched and is greater than the stored one
IsNew(current, seen) ==
    current.known /\ seen.known /\ Greater(Parts(current.text), Parts(seen.text))

Notified(type) == \E i \in 1..Len(newVersions) : newVersions[i].type = type

\* C30: when the check of a visit has ended, a side is notified exactly when
\* its fetched version is greater than the version stored for it, never when
\* nothing is stored; and the storage is written only at the end of a check
\* that notified nothing, or by the dismissal.
C30_NotifiedIffNewer ==
    /\ [](versionLast.op \in {"clientFetched", "serverFetched"} /\ versionStep = "done" =>
             /\ Notified("client") <=> IsNew(clientVersion, stored.clientVersion)
             /\ Notified("server") <=> IsNew(serverVersion, stored.serverVersion))
    /\ [][versionStorage' # versionStorage =>
             \/ versionLast'.op = "dismiss"
             \/ versionLast'.op = "serverFetched" /\ newVersions' = <<>>]_vars

(***************************************************************************)
(* Properties of the TodoTable store                                       *)
(***************************************************************************)
\* a todo_updated event is delivered in this step
TodoUpdatedDelivered ==
    /\ Len(todoEvents) > 0 /\ todoEvents' = Tail(todoEvents)
    /\ Head(todoEvents).type = "todo_updated"

\* prev with data shallow-merged into the record that has data's key
mergedInto(prev, data) ==
    [i \in 1..Len(prev) |-> IF prev[i].id = data.id THEN Merge(prev[i], data) ELSE prev[i]]

\* C6: a todo_updated event shallow-merges its payload into the todo with the
\* payload's key, keeping every field the payload does not carry, and changes
\* nothing when no todo has that key.
C6_UpdatedEventMerges ==
    [][TodoUpdatedDelivered => todos' = mergedInto(todos, Head(todoEvents).data)]_vars

(***************************************************************************)
(* Properties of the events terminals                                      *)
(***************************************************************************)
\* C7: a message whose payload is not valid JSON is dropped without an
\* exception escaping the listener, and the event logs and connection statuses
\* are what they were before it.
C7_MalformedPayloadDropped ==
    [][(termLast'.op = "message" /\ ~termLast'.valid) =>
          /\ uncaught' = uncaught
          /\ termEvents' = termEvents /\ termAllEvents' = termAllEvents
          /\ termStatus' = termStatus /\ termAllStatus' = termAllStatus]_vars

\* the attributes of a todo the user sees
TodoVisible == {"content", "completed"}

TodoUndoOk(cid) ==
    /\ cid \in DOMAIN todoCalls /\ cid \notin DOMAIN todoCalls'
    /\ todoCalls[cid].origin = "handleUndo" /\ todoCalls[cid].ok

\* C13: when the undo of a delete succeeds, the re-created todo has the content
\* and the completed flag of the deleted todo; only its id may differ.
C13_UndoDeleteRestoresAttributes ==
    [][\A cid \in DOMAIN todoCalls :
          (TodoUndoOk(cid) /\ todoCalls[cid].action.type = "delete") =>
              \A f \in TodoVisible \cap DOMAIN todoCalls[cid].action.item :
                  todoCalls[cid].resp[f] = todoCalls[cid].action.item[f]]_vars

\* C26: when an undo succeeds, the slot is cleared if it still holds the entry
\* that was undone; an entry that a later mutation recorded while the undo was
\* in flight stays in the slot.
C26_UndoKeepsLaterEntry ==
    [][\A cid \in DOMAIN todoCalls :
          TodoUndoOk(cid) =>
              lastAction' = IF lastAction = todoCalls[cid].action
                            THEN NoAction
                            ELSE lastAction]_vars

\* C14: an entry in the undo slot always has its own timeout pending, armed
\* when the entry was recorded, so the slot never holds an entry older than the
\* expiry time; an empty slot has no timeout pending; when the timeout fires the
\* slot is empty, and an undo request is only ever sent for an entry still in
\* the slot.
C14_SlotExpires ==
    /\ lastAction # NoAction =>
          /\ undoTimer.armed
          /\ slotAge <= ExpiryTicks
          /\ undoTimer.left = ExpiryTicks - slotAge
    /\ lastAction = NoAction => ~undoTimer.armed
    /\ todoLast.op = "expire" => lastAction = NoAction
    /\ todoLast.op = "handleUndo" => lastAction # NoAction

\* a second entry was recorded while the first one's time was running, and has
\* now reached its own expiry time
C14_Witness ==
    /\ lastAction # NoAction /\ lastAction.type = "delete"
    /\ slotAge = ExpiryTicks /\ undoTimer.left = 0
    /\ todoOps >= 2

ToggleFailed(cid) ==
    /\ cid \in DOMAIN todoCalls /\ cid \notin DOMAIN todoCalls'
    /\ todoCalls[cid].origin = "handleToggleComplete" /\ ~todoCalls[cid].ok

\* C15: when the request of a toggle-complete fails, by a non-OK response or by
\* a transport error, the todo is put back to the snapshot taken when the
\* toggle was invoked and the undo slot is left as it was.
C15_FailedToggleRollsBack ==
    [][\A cid \in DOMAIN todoCalls :
          ToggleFailed(cid) =>
              /\ \A i \in 1..Len(todos) :
                    todos[i].id = todoCalls[cid].id =>
                        todos'[i] = todoCalls[cid].previousState
              /\ lastAction' = lastAction]_vars

====
